---- MODULE Spec2Model ----
(***************************************************************************)
(* Model of FoodRecognitionService (src/src/services/foodRecognition.js):  *)
(* the provider cascade of recognizeFood, the response text extractor,     *)
(* the nutrition resolver over the local catalog, the aggregation engine   *)
(* and the barcode path; and of NotificationService                        *)
(* (src/unnamed/part_001): the daily initialisation of the meal reminders  *)
(* and the meal-completion notifications.                                  *)
(*                                                                         *)
(* Conventions.  A JavaScript number that can carry decimals (a nutrient   *)
(* value, a health score, a confidence) is the integer number of its       *)
(* hundredths: 4.0 is 400, 6.5 is 650, 180 is 18000.  Counts and gram      *)
(* weights are plain integers.  JavaScript strings are TLA+ strings and    *)
(* are processed character by character.  A property that is undefined     *)
(* in JavaScript is a field that is absent from the record.                *)
(***************************************************************************)
EXTENDS Integers, Sequences, FiniteSets, TLC

VARIABLES
  pc,          \* position of the recognizeFood / recognizeBarcode call
  apis,        \* this.APIs: which provider keys are configured
  request,     \* arguments of the call in progress
  base64Image, \* result of imageToBase64
  methodIdx,   \* index of the for-of loop over methods in recognizeFood
  tried,       \* names of the methods whose func the loop has invoked, in order
  calls,       \* platform and network calls issued so far, in order
  replies,     \* how each of these calls settled, in the order of settling
  fmt,         \* frame of the formatQuantityResponse call in progress
  outcome,     \* what the call resolved with, or the error it rejected with
  today,       \* the calendar day, as new Date().toDateString() tells it
  AsyncStorage,\* the keys NotificationService keeps in AsyncStorage
  scheduled,   \* reminder requests the scheduler has accepted since its last cancel
  presented,   \* completion notifications presented, by meal type and day
  reminderRuns,\* runs of scheduleDailyMealReminders begun, by day
  succeeded,   \* days on which a call of initialize made that day returned true
  tasks,       \* the calls of NotificationService in progress
  started      \* calls of NotificationService made so far

\* the state of FoodRecognitionService and that of NotificationService
recognitionVars ==
  <<pc, apis, request, base64Image, methodIdx, tried, calls, replies, fmt, outcome>>

notificationVars ==
  <<today, AsyncStorage, scheduled, presented, reminderRuns, succeeded, tasks, started>>

vars == <<pc, apis, request, base64Image, methodIdx, tried, calls, replies, fmt, outcome,
          today, AsyncStorage, scheduled, presented, reminderRuns, succeeded, tasks, started>>

(***************************************************************************)
(* Bounds of the model.                                                    *)
(***************************************************************************)
\* longest detectedItems array a provider reply carries
MaxItems == 2

\* calls of NotificationService that can be in progress at once
MaxTasks == 2

\* calls of NotificationService made in all
MaxCalls == 3

\* calendar days the model runs through
MaxDays == 2

(***************************************************************************)
(* JavaScript string and number primitives.                                *)
(***************************************************************************)
UpperToLower ==
  [A |-> "a", B |-> "b", C |-> "c", D |-> "d", E |-> "e", F |-> "f", G |-> "g",
   H |-> "h", I |-> "i", J |-> "j", K |-> "k", L |-> "l", M |-> "m", N |-> "n",
   O |-> "o", P |-> "p", Q |-> "q", R |-> "r", S |-> "s", T |-> "t", U |-> "u",
   V |-> "v", W |-> "w", X |-> "x", Y |-> "y", Z |-> "z"]

LowerToUpper ==
  [a |-> "A", b |-> "B", c |-> "C", d |-> "D", e |-> "E", f |-> "F", g |-> "G",
   h |-> "H", i |-> "I", j |-> "J", k |-> "K", l |-> "L", m |-> "M", n |-> "N",
   o |-> "O", p |-> "P", q |-> "Q", r |-> "R", s |-> "S", t |-> "T", u |-> "U",
   v |-> "V", w |-> "W", x |-> "X", y |-> "Y", z |-> "Z"]

RECURSIVE toLowerCase(_)
\* String.prototype.toLowerCase (halving keeps the recursion shallow)
toLowerCase(s) ==
  IF s = "" THEN ""
  ELSE IF Len(s) = 1
       THEN (IF s \in DOMAIN UpperToLower THEN UpperToLower[s] ELSE s)
       ELSE toLowerCase(SubSeq(s, 1, Len(s) \div 2))
            \o toLowerCase(SubSeq(s, Len(s) \div 2 + 1, Len(s)))

\* str.charAt(0).toUpperCase() + str.slice(1)
capitalize(s) ==
  IF s = "" THEN ""
  ELSE (IF Head(s) \in DOMAIN LowerToUpper THEN LowerToUpper[Head(s)] ELSE Head(s))
       \o Tail(s)

\* s.slice(i - 1, j): the characters i..j of s that exist
Slice(s, i, j) ==
  LET lo == IF i < 1 THEN 1 ELSE i
      hi == IF j > Len(s) THEN Len(s) ELSE j
  IN IF lo > hi THEN "" ELSE SubSeq(s, lo, hi)

\* String.prototype.includes
includes(s, sub) ==
  \E i \in 1..(Len(s) - Len(sub) + 1) : Slice(s, i, i + Len(sub) - 1) = sub

Digits == "0123456789"

IsDigit(c) == c \in {"0", "1", "2", "3", "4", "5", "6", "7", "8", "9"}

DigitVal(c) == CHOOSE d \in 0..9 : SubSeq(Digits, d + 1, d + 1) = c

IsSpace(c) == c \in {" ", "\n", "\t"}

RECURSIVE SkipSpace(_)
SkipSpace(s) == IF s # "" /\ IsSpace(Head(s)) THEN SkipSpace(Tail(s)) ELSE s

RECURSIVE LeadingDigits(_, _, _)
\* the value and the length of the run of digits s starts with
LeadingDigits(s, acc, n) ==
  IF s # "" /\ IsDigit(Head(s))
  THEN LeadingDigits(Tail(s), acc * 10 + DigitVal(Head(s)), n + 1)
  ELSE [val |-> acc, len |-> n, rest |-> s]

\* the number NaN
NaN == [nan |-> TRUE, val |-> 0]

\* parseInt of a string: blanks, an optional sign, then the leading digits
parseInt(s) ==
  LET t == SkipSpace(s)
      signed == t # "" /\ Head(t) \in {"-", "+"}
      d == LeadingDigits(IF signed THEN Tail(t) ELSE t, 0, 0)
  IN IF d.len = 0 THEN NaN
     ELSE [nan |-> FALSE, val |-> IF signed /\ Head(t) = "-" THEN -d.val ELSE d.val]

RECURSIVE NatToStr(_)
NatToStr(n) ==
  IF n < 10 THEN SubSeq(Digits, n + 1, n + 1)
  ELSE NatToStr(n \div 10) \o SubSeq(Digits, (n % 10) + 1, (n % 10) + 1)

\* String(n) of an integer
IntToStr(n) == IF n < 0 THEN "-" \o NatToStr(-n) ELSE NatToStr(n)

\* String(x) of a number given in hundredths
NumToStr(x) ==
  LET a == IF x < 0 THEN -x ELSE x
      whole == NatToStr(a \div 100)
      frac == a % 100
      digits == IF frac = 0 THEN ""
                ELSE IF frac % 10 = 0 THEN "." \o NatToStr(frac \div 10)
                ELSE "." \o NatToStr(frac \div 10) \o NatToStr(frac % 10)
  IN (IF x < 0 THEN "-" ELSE "") \o whole \o digits

\* Math.round(x), x and the result in hundredths (halves round up)
MathRound(x) == ((x + 50) \div 100) * 100

\* Math.round(x * 10) / 10, x and the result in hundredths
RoundTenth(x) == ((x + 5) \div 10) * 10

Max(a, b) == IF a >= b THEN a ELSE b

Min(a, b) == IF a <= b THEN a ELSE b

RECURSIVE SumSeq(_)
SumSeq(s) == IF s = <<>> THEN 0 ELSE Head(s) + SumSeq(Tail(s))

\* obj[key] || dflt, for a field that may be absent
GetOr(obj, key, dflt) == IF key \in DOMAIN obj THEN obj[key] ELSE dflt

(***************************************************************************)
(* The local nutrition catalog, in the order of Object.entries.            *)
(***************************************************************************)
initializePerUnitDatabase ==
  <<
    [key |-> "paratha", data |->
      [displayName |-> "Plain Paratha", weight |-> "70g",
       nutrition |-> [calories |-> 18000, protein |-> 400, carbs |-> 2800, fat |-> 650, fiber |-> 300, sugar |-> 200, sodium |-> 18000, iron |-> 180, calcium |-> 2500, vitaminC |-> 0],
       category |-> "Indian Bread", healthScore |-> 700,
       ingredients |-> <<"wheat flour", "oil", "salt">>,
       tips |-> "Good source of carbohydrates and energy"]],
    [key |-> "mix_veg", data |->
      [displayName |-> "Mix Veg", weight |-> "150g",
       nutrition |-> [calories |-> 14000, protein |-> 520, carbs |-> 1800, fat |-> 680, fiber |-> 550, sugar |-> 800, sodium |-> 32000, iron |-> 240, calcium |-> 8500, vitaminC |-> 2500],
       category |-> "North Indian", healthScore |-> 800,
       ingredients |-> <<"mixed vegetables", "onion", "tomato", "spices", "oil">>,
       tips |-> "Rich in vitamins and minerals from fresh vegetables"]],
    [key |-> "aloo_jeera", data |->
      [displayName |-> "Aloo Jeera", weight |-> "120g",
       nutrition |-> [calories |-> 16500, protein |-> 380, carbs |-> 2400, fat |-> 720, fiber |-> 320, sugar |-> 300, sodium |-> 28000, iron |-> 180, calcium |-> 2800, vitaminC |-> 1200],
       category |-> "North Indian", healthScore |-> 700,
       ingredients |-> <<"potato", "cumin", "turmeric", "oil", "coriander">>,
       tips |-> "Simple and flavorful potato preparation"]],
    [key |-> "aloo_gobhi", data |->
      [displayName |-> "Aloo Gobhi", weight |-> "130g",
       nutrition |-> [calories |-> 15500, protein |-> 450, carbs |-> 2200, fat |-> 680, fiber |-> 420, sugar |-> 600, sodium |-> 30000, iron |-> 210, calcium |-> 3500, vitaminC |-> 4500],
       category |-> "North Indian", healthScore |-> 800,
       ingredients |-> <<"potato", "cauliflower", "turmeric", "ginger", "spices">>,
       tips |-> "Good source of vitamin C and fiber"]],
    [key |-> "gobhi_masala", data |->
      [displayName |-> "Gobhi Masala", weight |-> "125g",
       nutrition |-> [calories |-> 14800, protein |-> 420, carbs |-> 2000, fat |-> 700, fiber |-> 480, sugar |-> 700, sodium |-> 31000, iron |-> 200, calcium |-> 4200, vitaminC |-> 5000],
       category |-> "North Indian", healthScore |-> 800,
       ingredients |-> <<"cauliflower", "onion", "tomato", "garam masala", "oil">>,
       tips |-> "High in vitamin C and antioxidants"]],
    [key |-> "aloo_mutter", data |->
      [displayName |-> "Aloo Mutter", weight |-> "135g",
       nutrition |-> [calories |-> 16200, protein |-> 580, carbs |-> 2300, fat |-> 650, fiber |-> 520, sugar |-> 800, sodium |-> 29000, iron |-> 250, calcium |-> 3500, vitaminC |-> 1800],
       category |-> "North Indian", healthScore |-> 800,
       ingredients |-> <<"potato", "green peas", "tomato", "cumin", "coriander">>,
       tips |-> "Good protein from peas and complex carbs"]],
    [key |-> "banarasi_dum_aloo", data |->
      [displayName |-> "Banarasi Dum Aloo", weight |-> "140g",
       nutrition |-> [calories |-> 19500, protein |-> 420, carbs |-> 2600, fat |-> 950, fiber |-> 380, sugar |-> 500, sodium |-> 38000, iron |-> 220, calcium |-> 3200, vitaminC |-> 1500],
       category |-> "North Indian", healthScore |-> 700,
       ingredients |-> <<"baby potato", "yogurt", "cashew", "garam masala", "ghee">>,
       tips |-> "Rich and creamy traditional recipe"]],
    [key |-> "kashmiri_dum_aloo", data |->
      [displayName |-> "Kashmiri Dum Aloo", weight |-> "140g",
       nutrition |-> [calories |-> 21000, protein |-> 450, carbs |-> 2800, fat |-> 1020, fiber |-> 400, sugar |-> 600, sodium |-> 35000, iron |-> 240, calcium |-> 3800, vitaminC |-> 1200],
       category |-> "North Indian", healthScore |-> 700,
       ingredients |-> <<"baby potato", "yogurt", "fennel", "saffron", "ghee">>,
       tips |-> "Aromatic Kashmiri specialty with unique spices"]],
    [key |-> "aloo_bhurji", data |->
      [displayName |-> "Aloo Bhurji", weight |-> "110g",
       nutrition |-> [calories |-> 14500, protein |-> 350, carbs |-> 2000, fat |-> 680, fiber |-> 280, sugar |-> 400, sodium |-> 26000, iron |-> 160, calcium |-> 2200, vitaminC |-> 1800],
       category |-> "North Indian", healthScore |-> 700,
       ingredients |-> <<"potato", "onion", "green chili", "turmeric", "coriander">>,
       tips |-> "Light and spiced mashed potato dish"]],
    [key |-> "baingan_bharta", data |->
      [displayName |-> "Baingan Bharta", weight |-> "130g",
       nutrition |-> [calories |-> 12500, protein |-> 380, carbs |-> 1500, fat |-> 650, fiber |-> 620, sugar |-> 900, sodium |-> 28000, iron |-> 180, calcium |-> 2800, vitaminC |-> 800],
       category |-> "North Indian", healthScore |-> 800,
       ingredients |-> <<"eggplant", "onion", "tomato", "garlic", "mustard oil">>,
       tips |-> "High fiber and low calorie vegetable dish"]],
    [key |-> "bhindi_masala", data |->
      [displayName |-> "Bhindi Masala", weight |-> "120g",
       nutrition |-> [calories |-> 13500, protein |-> 420, carbs |-> 1600, fat |-> 700, fiber |-> 580, sugar |-> 400, sodium |-> 24000, iron |-> 200, calcium |-> 6500, vitaminC |-> 2200],
       category |-> "North Indian", healthScore |-> 800,
       ingredients |-> <<"okra", "onion", "turmeric", "coriander", "oil">>,
       tips |-> "Rich in fiber and vitamin C"]],
    [key |-> "keema_gobhi_mutter", data |->
      [displayName |-> "Keema Gobhi Mutter", weight |-> "145g",
       nutrition |-> [calories |-> 18500, protein |-> 850, carbs |-> 1800, fat |-> 920, fiber |-> 450, sugar |-> 800, sodium |-> 38000, iron |-> 320, calcium |-> 4500, vitaminC |-> 3500],
       category |-> "North Indian", healthScore |-> 700,
       ingredients |-> <<"soy keema", "cauliflower", "peas", "garam masala", "oil">>,
       tips |-> "High protein vegetarian keema alternative"]],
    [key |-> "palak_chana", data |->
      [displayName |-> "Palak Chana", weight |-> "140g",
       nutrition |-> [calories |-> 16800, protein |-> 880, carbs |-> 2200, fat |-> 550, fiber |-> 820, sugar |-> 500, sodium |-> 32000, iron |-> 450, calcium |-> 12500, vitaminC |-> 2800],
       category |-> "North Indian", healthScore |-> 900,
       ingredients |-> <<"spinach", "chickpeas", "onion", "garlic", "cumin">>,
       tips |-> "Excellent source of iron and protein"]],
    [key |-> "palak_corn", data |->
      [displayName |-> "Palak Corn", weight |-> "130g",
       nutrition |-> [calories |-> 14200, protein |-> 620, carbs |-> 2000, fat |-> 580, fiber |-> 550, sugar |-> 800, sodium |-> 28000, iron |-> 380, calcium |-> 10500, vitaminC |-> 3200],
       category |-> "North Indian", healthScore |-> 800,
       ingredients |-> <<"spinach", "sweet corn", "onion", "garlic", "spices">>,
       tips |-> "Rich in iron from spinach and fiber from corn"]],
    [key |-> "palak_kofta", data |->
      [displayName |-> "Palak Kofta", weight |-> "160g",
       nutrition |-> [calories |-> 19500, protein |-> 750, carbs |-> 1800, fat |-> 1200, fiber |-> 480, sugar |-> 600, sodium |-> 35000, iron |-> 420, calcium |-> 14500, vitaminC |-> 2500],
       category |-> "North Indian", healthScore |-> 700,
       ingredients |-> <<"spinach kofta", "spinach gravy", "paneer", "cream", "spices">>,
       tips |-> "Protein-rich with iron from spinach"]],
    [key |-> "tomato_chutney", data |->
      [displayName |-> "Tomato Chutney", weight |-> "50g",
       nutrition |-> [calories |-> 4500, protein |-> 180, carbs |-> 800, fat |-> 120, fiber |-> 220, sugar |-> 600, sodium |-> 18000, iron |-> 80, calcium |-> 1500, vitaminC |-> 1800],
       category |-> "Condiment", healthScore |-> 700,
       ingredients |-> <<"tomato", "tamarind", "jaggery", "mustard seeds", "chili">>,
       tips |-> "Rich in vitamin C and antioxidants"]],
    [key |-> "black_chana_masala", data |->
      [displayName |-> "Black Chana Masala", weight |-> "150g",
       nutrition |-> [calories |-> 18500, protein |-> 1050, carbs |-> 2600, fat |-> 620, fiber |-> 950, sugar |-> 400, sodium |-> 38000, iron |-> 480, calcium |-> 6500, vitaminC |-> 800],
       category |-> "North Indian", healthScore |-> 900,
       ingredients |-> <<"black chickpeas", "onion", "tomato", "garam masala", "oil">>,
       tips |-> "Excellent source of plant protein and fiber"]],
    [key |-> "white_chana_masala", data |->
      [displayName |-> "White Chana Masala", weight |-> "150g",
       nutrition |-> [calories |-> 17500, protein |-> 980, carbs |-> 2500, fat |-> 580, fiber |-> 880, sugar |-> 500, sodium |-> 36000, iron |-> 420, calcium |-> 5800, vitaminC |-> 1000],
       category |-> "North Indian", healthScore |-> 900,
       ingredients |-> <<"white chickpeas", "onion", "tomato", "cumin", "coriander">>,
       tips |-> "High protein and fiber legume preparation"]],
    [key |-> "veg_kofta", data |->
      [displayName |-> "Veg Kofta", weight |-> "180g",
       nutrition |-> [calories |-> 22500, protein |-> 820, carbs |-> 2200, fat |-> 1350, fiber |-> 450, sugar |-> 800, sodium |-> 42000, iron |-> 280, calcium |-> 8500, vitaminC |-> 1500],
       category |-> "North Indian", healthScore |-> 600,
       ingredients |-> <<"mixed vegetable kofta", "tomato gravy", "cashew", "cream">>,
       tips |-> "Rich and creamy - enjoy in moderation"]],
    [key |-> "malai_kofta", data |->
      [displayName |-> "Malai Kofta", weight |-> "180g",
       nutrition |-> [calories |-> 24500, protein |-> 950, carbs |-> 2000, fat |-> 1620, fiber |-> 380, sugar |-> 900, sodium |-> 38000, iron |-> 250, calcium |-> 12500, vitaminC |-> 1200],
       category |-> "North Indian", healthScore |-> 600,
       ingredients |-> <<"paneer kofta", "cream gravy", "cashew", "butter", "spices">>,
       tips |-> "High in protein but also high in calories"]],
    [key |-> "kadhi_pakora", data |->
      [displayName |-> "Kadhi Pakora", weight |-> "200g",
       nutrition |-> [calories |-> 18500, protein |-> 680, carbs |-> 2000, fat |-> 950, fiber |-> 320, sugar |-> 800, sodium |-> 42000, iron |-> 220, calcium |-> 9500, vitaminC |-> 500],
       category |-> "North Indian", healthScore |-> 700,
       ingredients |-> <<"yogurt curry", "besan pakora", "turmeric", "ginger", "cumin">>,
       tips |-> "Probiotic benefits from yogurt"]],
    [key |-> "dal_makhani", data |->
      [displayName |-> "Dal Makhani", weight |-> "150g",
       nutrition |-> [calories |-> 21000, protein |-> 1250, carbs |-> 2400, fat |-> 880, fiber |-> 920, sugar |-> 400, sodium |-> 38000, iron |-> 480, calcium |-> 8500, vitaminC |-> 300],
       category |-> "Dal", healthScore |-> 800,
       ingredients |-> <<"black dal", "kidney beans", "butter", "cream", "tomato">>,
       tips |-> "Rich source of plant protein and iron"]],
    [key |-> "yellow_dal", data |->
      [displayName |-> "Yellow Dal", weight |-> "150g",
       nutrition |-> [calories |-> 15500, protein |-> 1120, carbs |-> 2200, fat |-> 450, fiber |-> 850, sugar |-> 300, sodium |-> 28000, iron |-> 420, calcium |-> 4500, vitaminC |-> 200],
       category |-> "Dal", healthScore |-> 900,
       ingredients |-> <<"yellow lentils", "turmeric", "cumin", "garlic", "coriander">>,
       tips |-> "Complete protein source with high fiber"]],
    [key |-> "punjabi_dal_tadka", data |->
      [displayName |-> "Punjabi Dal Tadka", weight |-> "150g",
       nutrition |-> [calories |-> 16800, protein |-> 1180, carbs |-> 2300, fat |-> 520, fiber |-> 880, sugar |-> 300, sodium |-> 32000, iron |-> 450, calcium |-> 5200, vitaminC |-> 500],
       category |-> "Dal", healthScore |-> 900,
       ingredients |-> <<"mixed lentils", "onion", "tomato", "ghee", "whole spices">>,
       tips |-> "Traditional Punjabi style with rich flavor"]],
    [key |-> "rajma_tadka", data |->
      [displayName |-> "Rajma Tadka", weight |-> "150g",
       nutrition |-> [calories |-> 19500, protein |-> 1280, carbs |-> 2600, fat |-> 620, fiber |-> 1050, sugar |-> 400, sodium |-> 38000, iron |-> 480, calcium |-> 6500, vitaminC |-> 800],
       category |-> "Dal", healthScore |-> 900,
       ingredients |-> <<"kidney beans", "onion", "tomato", "garam masala", "oil">>,
       tips |-> "Excellent source of protein and fiber"]],
    [key |-> "white_chana_gravy", data |->
      [displayName |-> "White Chana Gravy", weight |-> "150g",
       nutrition |-> [calories |-> 18200, protein |-> 1020, carbs |-> 2500, fat |-> 600, fiber |-> 920, sugar |-> 500, sodium |-> 35000, iron |-> 450, calcium |-> 6200, vitaminC |-> 1200],
       category |-> "Dal", healthScore |-> 900,
       ingredients |-> <<"white chickpeas", "onion gravy", "tomato", "cumin", "bay leaves">>,
       tips |-> "High protein legume with complex carbs"]],
    [key |-> "black_chana_gravy", data |->
      [displayName |-> "Black Chana Gravy", weight |-> "150g",
       nutrition |-> [calories |-> 18800, protein |-> 1080, carbs |-> 2600, fat |-> 620, fiber |-> 980, sugar |-> 400, sodium |-> 37000, iron |-> 520, calcium |-> 6800, vitaminC |-> 1000],
       category |-> "Dal", healthScore |-> 900,
       ingredients |-> <<"black chickpeas", "onion", "tomato", "garam masala", "oil">>,
       tips |-> "Higher iron content than white chickpeas"]],
    [key |-> "tandoori_roti", data |->
      [displayName |-> "Tandoori Roti", weight |-> "60g",
       nutrition |-> [calories |-> 14000, protein |-> 480, carbs |-> 2600, fat |-> 220, fiber |-> 350, sugar |-> 100, sodium |-> 20000, iron |-> 200, calcium |-> 2500, vitaminC |-> 0],
       category |-> "Tandoor Bread", healthScore |-> 800,
       ingredients |-> <<"wheat flour", "water", "salt">>,
       tips |-> "Healthy whole wheat bread option"]],
    [key |-> "tandoori_butter_roti", data |->
      [displayName |-> "Tandoori Butter Roti", weight |-> "65g",
       nutrition |-> [calories |-> 16500, protein |-> 500, carbs |-> 2600, fat |-> 580, fiber |-> 350, sugar |-> 100, sodium |-> 22000, iron |-> 200, calcium |-> 2800, vitaminC |-> 0],
       category |-> "Tandoor Bread", healthScore |-> 700,
       ingredients |-> <<"wheat flour", "butter", "water", "salt">>,
       tips |-> "Buttery flavor with extra calories"]],
    [key |-> "butter_naan", data |->
      [displayName |-> "Butter Naan", weight |-> "80g",
       nutrition |-> [calories |-> 22000, protein |-> 620, carbs |-> 3500, fat |-> 750, fiber |-> 200, sugar |-> 300, sodium |-> 38000, iron |-> 220, calcium |-> 4500, vitaminC |-> 0],
       category |-> "Tandoor Bread", healthScore |-> 600,
       ingredients |-> <<"refined flour", "yogurt", "butter", "yeast", "sugar">>,
       tips |-> "Soft and buttery but higher in calories"]],
    [key |-> "plain_naan", data |->
      [displayName |-> "Plain Naan", weight |-> "75g",
       nutrition |-> [calories |-> 19500, protein |-> 580, carbs |-> 3500, fat |-> 420, fiber |-> 180, sugar |-> 300, sodium |-> 35000, iron |-> 200, calcium |-> 4000, vitaminC |-> 0],
       category |-> "Tandoor Bread", healthScore |-> 600,
       ingredients |-> <<"refined flour", "yogurt", "yeast", "oil", "salt">>,
       tips |-> "Classic Indian bread - pairs well with curry"]],
    [key |-> "lachha_parantha", data |->
      [displayName |-> "Lachha Parantha", weight |-> "85g",
       nutrition |-> [calories |-> 24000, protein |-> 600, carbs |-> 3200, fat |-> 1050, fiber |-> 320, sugar |-> 200, sodium |-> 28000, iron |-> 220, calcium |-> 3500, vitaminC |-> 0],
       category |-> "Tandoor Bread", healthScore |-> 600,
       ingredients |-> <<"wheat flour", "ghee", "oil", "salt">>,
       tips |-> "Layered bread with higher fat content"]],
    [key |-> "mirchi_lachha_parantha", data |->
      [displayName |-> "Mirchi Lachha Parantha", weight |-> "90g",
       nutrition |-> [calories |-> 25500, protein |-> 650, carbs |-> 3300, fat |-> 1120, fiber |-> 380, sugar |-> 200, sodium |-> 32000, iron |-> 240, calcium |-> 3800, vitaminC |-> 1500],
       category |-> "Tandoor Bread", healthScore |-> 600,
       ingredients |-> <<"wheat flour", "green chili", "ghee", "coriander", "salt">>,
       tips |-> "Spicy layered bread with vitamin C from chilies"]],
    [key |-> "garlic_naan", data |->
      [displayName |-> "Garlic Naan", weight |-> "80g",
       nutrition |-> [calories |-> 20500, protein |-> 600, carbs |-> 3400, fat |-> 550, fiber |-> 220, sugar |-> 300, sodium |-> 37000, iron |-> 220, calcium |-> 4200, vitaminC |-> 200],
       category |-> "Tandoor Bread", healthScore |-> 700,
       ingredients |-> <<"refined flour", "garlic", "butter", "yogurt", "herbs">>,
       tips |-> "Garlic provides antioxidants and flavor"]],
    [key |-> "stuffed_kulcha", data |->
      [displayName |-> "Stuffed Kulcha", weight |-> "100g",
       nutrition |-> [calories |-> 28000, protein |-> 850, carbs |-> 3800, fat |-> 1100, fiber |-> 400, sugar |-> 300, sodium |-> 42000, iron |-> 280, calcium |-> 5500, vitaminC |-> 800],
       category |-> "Tandoor Bread", healthScore |-> 600,
       ingredients |-> <<"refined flour", "potato stuffing", "yogurt", "ghee", "spices">>,
       tips |-> "Filling bread with vegetable stuffing"]],
    [key |-> "tawa_roti", data |->
      [displayName |-> "Tawa Roti", weight |-> "50g",
       nutrition |-> [calories |-> 12000, protein |-> 350, carbs |-> 2200, fat |-> 120, fiber |-> 280, sugar |-> 100, sodium |-> 15000, iron |-> 150, calcium |-> 1800, vitaminC |-> 0],
       category |-> "Tawa Bread", healthScore |-> 800,
       ingredients |-> <<"wheat flour", "water", "salt">>,
       tips |-> "Simple and healthy whole wheat bread"]],
    [key |-> "tawa_butter_roti", data |->
      [displayName |-> "Tawa Butter Roti", weight |-> "55g",
       nutrition |-> [calories |-> 14500, protein |-> 380, carbs |-> 2200, fat |-> 480, fiber |-> 280, sugar |-> 100, sodium |-> 17000, iron |-> 150, calcium |-> 2200, vitaminC |-> 0],
       category |-> "Tawa Bread", healthScore |-> 700,
       ingredients |-> <<"wheat flour", "butter", "water", "salt">>,
       tips |-> "Buttery version with extra flavor"]],
    [key |-> "plain_parantha", data |->
      [displayName |-> "Plain Parantha", weight |-> "70g",
       nutrition |-> [calories |-> 18000, protein |-> 400, carbs |-> 2800, fat |-> 650, fiber |-> 300, sugar |-> 200, sodium |-> 18000, iron |-> 180, calcium |-> 2500, vitaminC |-> 0],
       category |-> "Tawa Bread", healthScore |-> 700,
       ingredients |-> <<"wheat flour", "oil", "salt">>,
       tips |-> "Classic Indian flatbread"]],
    [key |-> "shahi_paneer", data |->
      [displayName |-> "Shahi Paneer", weight |-> "180g",
       nutrition |-> [calories |-> 28500, protein |-> 1650, carbs |-> 1500, fat |-> 2050, fiber |-> 280, sugar |-> 800, sodium |-> 42000, iron |-> 220, calcium |-> 28500, vitaminC |-> 1200],
       category |-> "Paneer Special", healthScore |-> 600,
       ingredients |-> <<"paneer", "cashew gravy", "cream", "tomato", "spices">>,
       tips |-> "High protein but also high in calories"]],
    [key |-> "kadai_paneer", data |->
      [displayName |-> "Kadai Paneer", weight |-> "170g",
       nutrition |-> [calories |-> 26500, protein |-> 1580, carbs |-> 1200, fat |-> 1820, fiber |-> 320, sugar |-> 600, sodium |-> 38000, iron |-> 200, calcium |-> 27500, vitaminC |-> 3500],
       category |-> "Paneer Special", healthScore |-> 700,
       ingredients |-> <<"paneer", "bell peppers", "onion", "tomato", "kadai masala">>,
       tips |-> "Good protein with vegetables"]],
    [key |-> "achari_paneer", data |->
      [displayName |-> "Achari Paneer", weight |-> "175g",
       nutrition |-> [calories |-> 27500, protein |-> 1620, carbs |-> 1400, fat |-> 1900, fiber |-> 250, sugar |-> 700, sodium |-> 45000, iron |-> 220, calcium |-> 28000, vitaminC |-> 1500],
       category |-> "Paneer Special", healthScore |-> 600,
       ingredients |-> <<"paneer", "pickle spices", "yogurt", "onion", "oil">>,
       tips |-> "Tangy flavor with high sodium content"]],
    [key |-> "mutter_paneer", data |->
      [displayName |-> "Mutter Paneer", weight |-> "170g",
       nutrition |-> [calories |-> 24500, protein |-> 1550, carbs |-> 1600, fat |-> 1580, fiber |-> 450, sugar |-> 800, sodium |-> 36000, iron |-> 280, calcium |-> 27000, vitaminC |-> 2500],
       category |-> "Paneer Special", healthScore |-> 700,
       ingredients |-> <<"paneer", "green peas", "tomato gravy", "garam masala">>,
       tips |-> "Added fiber and vitamins from peas"]],
    [key |-> "cheese_tomato", data |->
      [displayName |-> "Cheese Tomato", weight |-> "160g",
       nutrition |-> [calories |-> 22000, protein |-> 1250, carbs |-> 1200, fat |-> 1480, fiber |-> 280, sugar |-> 900, sodium |-> 38000, iron |-> 150, calcium |-> 24500, vitaminC |-> 2800],
       category |-> "Paneer Special", healthScore |-> 700,
       ingredients |-> <<"cheese", "fresh tomato", "onion", "herbs", "cream">>,
       tips |-> "Rich in vitamin C from tomatoes"]],
    [key |-> "paneer_do_piaza", data |->
      [displayName |-> "Paneer Do Piaza", weight |-> "175g",
       nutrition |-> [calories |-> 25500, protein |-> 1520, carbs |-> 1800, fat |-> 1650, fiber |-> 350, sugar |-> 1000, sodium |-> 37000, iron |-> 200, calcium |-> 27500, vitaminC |-> 1800],
       category |-> "Paneer Special", healthScore |-> 700,
       ingredients |-> <<"paneer", "onion", "bell peppers", "tomato", "garam masala">>,
       tips |-> "Double onion preparation with good protein"]],
    [key |-> "palak_paneer", data |->
      [displayName |-> "Palak Paneer", weight |-> "170g",
       nutrition |-> [calories |-> 23500, protein |-> 1600, carbs |-> 1200, fat |-> 1620, fiber |-> 420, sugar |-> 500, sodium |-> 34000, iron |-> 480, calcium |-> 32000, vitaminC |-> 2200],
       category |-> "Paneer Special", healthScore |-> 800,
       ingredients |-> <<"paneer", "spinach", "garlic", "ginger", "cream">>,
       tips |-> "Excellent source of iron and calcium"]],
    [key |-> "paneer_butter_masala", data |->
      [displayName |-> "Paneer Butter Masala", weight |-> "180g",
       nutrition |-> [calories |-> 29500, protein |-> 1680, carbs |-> 1600, fat |-> 2150, fiber |-> 300, sugar |-> 1000, sodium |-> 42000, iron |-> 220, calcium |-> 29000, vitaminC |-> 1500],
       category |-> "Paneer Special", healthScore |-> 600,
       ingredients |-> <<"paneer", "butter", "tomato gravy", "cream", "cashew">>,
       tips |-> "Rich and creamy - high in calories"]],
    [key |-> "paneer_tikka_butter_masala", data |->
      [displayName |-> "Paneer Tikka Butter Masala", weight |-> "185g",
       nutrition |-> [calories |-> 31500, protein |-> 1750, carbs |-> 1800, fat |-> 2300, fiber |-> 320, sugar |-> 1200, sodium |-> 45000, iron |-> 250, calcium |-> 29500, vitaminC |-> 1800],
       category |-> "Paneer Special", healthScore |-> 600,
       ingredients |-> <<"grilled paneer", "butter masala", "cream", "tomato", "spices">>,
       tips |-> "Grilled paneer in rich gravy"]],
    [key |-> "plain_rice", data |->
      [displayName |-> "Plain Rice", weight |-> "150g",
       nutrition |-> [calories |-> 16500, protein |-> 380, carbs |-> 3600, fat |-> 50, fiber |-> 80, sugar |-> 0, sodium |-> 500, iron |-> 120, calcium |-> 1500, vitaminC |-> 0],
       category |-> "Rice", healthScore |-> 600,
       ingredients |-> <<"basmati rice", "water", "salt">>,
       tips |-> "Simple carbohydrate source"]],
    [key |-> "jeera_rice", data |->
      [displayName |-> "Jeera Rice", weight |-> "150g",
       nutrition |-> [calories |-> 18500, protein |-> 400, carbs |-> 3600, fat |-> 320, fiber |-> 100, sugar |-> 0, sodium |-> 18000, iron |-> 150, calcium |-> 1800, vitaminC |-> 0],
       category |-> "Rice", healthScore |-> 700,
       ingredients |-> <<"basmati rice", "cumin", "ghee", "bay leaves">>,
       tips |-> "Aromatic rice with digestive cumin"]],
    [key |-> "veg_pulao", data |->
      [displayName |-> "Veg Pulao", weight |-> "180g",
       nutrition |-> [calories |-> 24500, protein |-> 650, carbs |-> 4200, fat |-> 680, fiber |-> 320, sugar |-> 400, sodium |-> 32000, iron |-> 220, calcium |-> 3500, vitaminC |-> 1500],
       category |-> "Rice", healthScore |-> 700,
       ingredients |-> <<"basmati rice", "mixed vegetables", "whole spices", "ghee">>,
       tips |-> "Nutritious one-pot meal with vegetables"]],
    [key |-> "gobhi_rice", data |->
      [displayName |-> "Gobhi Rice", weight |-> "170g",
       nutrition |-> [calories |-> 22500, protein |-> 580, carbs |-> 4000, fat |-> 550, fiber |-> 380, sugar |-> 500, sodium |-> 28000, iron |-> 200, calcium |-> 3200, vitaminC |-> 2500],
       category |-> "Rice", healthScore |-> 700,
       ingredients |-> <<"basmati rice", "cauliflower", "turmeric", "cumin", "oil">>,
       tips |-> "Cauliflower adds vitamins and fiber"]],
    [key |-> "veg_biryani", data |->
      [displayName |-> "Veg Biryani", weight |-> "250g",
       nutrition |-> [calories |-> 38500, protein |-> 950, carbs |-> 5800, fat |-> 1420, fiber |-> 450, sugar |-> 600, sodium |-> 52000, iron |-> 320, calcium |-> 6500, vitaminC |-> 1800],
       category |-> "Rice", healthScore |-> 700,
       ingredients |-> <<"basmati rice", "mixed vegetables", "yogurt", "saffron", "ghee">>,
       tips |-> "Festive rice dish with aromatic spices"]],
    [key |-> "hyderabadi_biryani", data |->
      [displayName |-> "Hyderabadi Biryani", weight |-> "260g",
       nutrition |-> [calories |-> 42000, protein |-> 1120, carbs |-> 6200, fat |-> 1650, fiber |-> 500, sugar |-> 700, sodium |-> 58000, iron |-> 350, calcium |-> 7500, vitaminC |-> 2000],
       category |-> "Rice", healthScore |-> 700,
       ingredients |-> <<"basmati rice", "vegetables", "yogurt", "saffron", "fried onions">>,
       tips |-> "Traditional Hyderabadi style preparation"]],
    [key |-> "paneer_biryani", data |->
      [displayName |-> "Paneer Biryani", weight |-> "270g",
       nutrition |-> [calories |-> 44500, protein |-> 1680, carbs |-> 5800, fat |-> 1820, fiber |-> 480, sugar |-> 800, sodium |-> 62000, iron |-> 320, calcium |-> 28500, vitaminC |-> 1500],
       category |-> "Rice", healthScore |-> 700,
       ingredients |-> <<"basmati rice", "paneer", "yogurt", "saffron", "whole spices">>,
       tips |-> "High protein biryani with paneer"]],
    [key |-> "veg_fried_rice", data |->
      [displayName |-> "Veg Fried Rice", weight |-> "200g",
       nutrition |-> [calories |-> 28500, protein |-> 720, carbs |-> 4800, fat |-> 850, fiber |-> 350, sugar |-> 500, sodium |-> 48000, iron |-> 250, calcium |-> 4500, vitaminC |-> 2200],
       category |-> "Rice", healthScore |-> 600,
       ingredients |-> <<"rice", "mixed vegetables", "soy sauce", "garlic", "oil">>,
       tips |-> "Indo-Chinese style fried rice"]],
    [key |-> "chilly_garlic_rice", data |->
      [displayName |-> "Chilly Garlic Rice", weight |-> "190g",
       nutrition |-> [calories |-> 26500, protein |-> 600, carbs |-> 4500, fat |-> 780, fiber |-> 280, sugar |-> 400, sodium |-> 52000, iron |-> 220, calcium |-> 3500, vitaminC |-> 1800],
       category |-> "Rice", healthScore |-> 600,
       ingredients |-> <<"rice", "green chili", "garlic", "soy sauce", "oil">>,
       tips |-> "Spicy and flavorful Chinese-style rice"]],
    [key |-> "normal_thali", data |->
      [displayName |-> "Normal Thali", weight |-> "400g",
       nutrition |-> [calories |-> 52000, protein |-> 1850, carbs |-> 7200, fat |-> 1820, fiber |-> 1250, sugar |-> 1500, sodium |-> 68000, iron |-> 680, calcium |-> 18500, vitaminC |-> 3500],
       category |-> "Complete Meal", healthScore |-> 800,
       ingredients |-> <<"tawa butter chapati", "rice", "dal", "raita", "salad", "pickle">>,
       tips |-> "Well-balanced complete meal"]],
    [key |-> "nk_special_thali", data |->
      [displayName |-> "NK Special Thali", weight |-> "450g",
       nutrition |-> [calories |-> 62500, protein |-> 2280, carbs |-> 7800, fat |-> 2450, fiber |-> 1420, sugar |-> 1800, sodium |-> 82000, iron |-> 820, calcium |-> 24500, vitaminC |-> 4200],
       category |-> "Complete Meal", healthScore |-> 800,
       ingredients |-> <<"tandoori butter roti", "flavoured rice", "sabji", "dal", "raita", "salad", "paneer sabji", "dessert">>,
       tips |-> "Premium thali with paneer dish"]],
    [key |-> "gulab_jamun", data |->
      [displayName |-> "Gulab Jamun", weight |-> "60g",
       nutrition |-> [calories |-> 18500, protein |-> 320, carbs |-> 2800, fat |-> 750, fiber |-> 50, sugar |-> 2500, sodium |-> 2500, iron |-> 80, calcium |-> 6500, vitaminC |-> 0],
       category |-> "Dessert", healthScore |-> 300,
       ingredients |-> <<"milk powder", "sugar syrup", "ghee", "cardamom">>,
       tips |-> "High sugar dessert - enjoy occasionally"]],
    [key |-> "moong_dal_halwa", data |->
      [displayName |-> "Moong Dal Halwa", weight |-> "80g",
       nutrition |-> [calories |-> 22000, protein |-> 680, carbs |-> 3200, fat |-> 850, fiber |-> 280, sugar |-> 2800, sodium |-> 1500, iron |-> 220, calcium |-> 4500, vitaminC |-> 0],
       category |-> "Dessert", healthScore |-> 400,
       ingredients |-> <<"moong dal", "sugar", "ghee", "milk", "cardamom">>,
       tips |-> "Traditional sweet with protein from lentils"]],
    [key |-> "stick_kulfi", data |->
      [displayName |-> "Stick Kulfi", weight |-> "70g",
       nutrition |-> [calories |-> 14500, protein |-> 420, carbs |-> 1800, fat |-> 680, fiber |-> 0, sugar |-> 1600, sodium |-> 3500, iron |-> 50, calcium |-> 12500, vitaminC |-> 100],
       category |-> "Dessert", healthScore |-> 400,
       ingredients |-> <<"milk", "sugar", "cardamom", "pistachios">>,
       tips |-> "Traditional Indian ice cream"]],
    [key |-> "ice_cream", data |->
      [displayName |-> "Ice Cream", weight |-> "75g",
       nutrition |-> [calories |-> 13500, protein |-> 380, carbs |-> 1600, fat |-> 620, fiber |-> 0, sugar |-> 1400, sodium |-> 4500, iron |-> 30, calcium |-> 9500, vitaminC |-> 100],
       category |-> "Dessert", healthScore |-> 400,
       ingredients |-> <<"milk", "cream", "sugar", "flavoring">>,
       tips |-> "Cool treat with calcium from dairy"]]
  >>

\* this.perUnitNutrition, set once by the constructor
perUnitNutrition == initializePerUnitDatabase

(***************************************************************************)
(* Nutrition resolver.                                                     *)
(***************************************************************************)
NutritionFields ==
  {"calories", "protein", "carbs", "fat", "fiber", "sugar", "sodium", "iron",
   "calcium", "vitaminC"}

\* the fields Math.round keeps as integers; the others keep one decimal
IntegerFields == {"calories", "sodium", "calcium"}

\* the string 'AI_GENERATE' standing where a nutrition object is expected:
\* a value that has none of the nutrient fields
AI_GENERATE == [AI_GENERATE |-> TRUE]

estimateWeight(foodName) ==
  LET name == toLowerCase(foodName)
  IN CASE includes(name, "pizza") -> "150g"
       [] includes(name, "burger") -> "180g"
       [] includes(name, "sandwich") -> "120g"
       [] includes(name, "pasta") -> "200g"
       [] includes(name, "noodles") -> "150g"
       [] includes(name, "dosa") -> "100g"
       [] includes(name, "idli") -> "40g"
       [] includes(name, "vada") -> "50g"
       [] includes(name, "cake") -> "80g"
       [] includes(name, "cookie") -> "15g"
       [] OTHER -> "100g"

\* data.displayName.toLowerCase() of every entry
lowerDisplayName ==
  [i \in 1..Len(perUnitNutrition) |-> toLowerCase(perUnitNutrition[i].data.displayName)]

RECURSIVE FirstCatalogHit(_, _)
\* the for-of loop of getPerUnitNutrition: index of the first entry whose key
\* or lowercased display name occurs in searchTerm, 0 when there is none
FirstCatalogHit(searchTerm, i) ==
  IF i > Len(perUnitNutrition) THEN 0
  ELSE IF \/ includes(searchTerm, perUnitNutrition[i].key)
          \/ includes(searchTerm, lowerDisplayName[i])
       THEN i
       ELSE FirstCatalogHit(searchTerm, i + 1)

getPerUnitNutrition(foodName) ==
  LET hit == FirstCatalogHit(toLowerCase(foodName), 1)
  IN IF hit > 0 THEN perUnitNutrition[hit].data
     ELSE [displayName |-> foodName,
           weight |-> estimateWeight(foodName),
           nutrition |-> AI_GENERATE,
           needsAIGeneration |-> TRUE]

categorizeFoodType(foodName) ==
  LET name == toLowerCase(foodName)
  IN CASE includes(name, "pizza") -> "pizza"
       [] includes(name, "burger") -> "burger"
       [] includes(name, "pasta") -> "pasta"
       [] includes(name, "noodles") -> "noodles"
       [] includes(name, "sandwich") -> "sandwich"
       [] includes(name, "cake") \/ includes(name, "pastry") -> "cake"
       [] OTHER -> "default"

categoryNutrition ==
  [pizza |-> [calories |-> 26600, protein |-> 1100, carbs |-> 3300, fat |-> 1000, fiber |-> 200,
              sugar |-> 400, sodium |-> 59800, iron |-> 250, calcium |-> 14400, vitaminC |-> 200],
   burger |-> [calories |-> 29500, protein |-> 1700, carbs |-> 2800, fat |-> 1400, fiber |-> 200,
               sugar |-> 400, sodium |-> 39600, iron |-> 250, calcium |-> 13500, vitaminC |-> 200],
   pasta |-> [calories |-> 22000, protein |-> 800, carbs |-> 4300, fat |-> 100, fiber |-> 300,
              sugar |-> 300, sodium |-> 14200, iron |-> 180, calcium |-> 1800, vitaminC |-> 0],
   noodles |-> [calories |-> 13800, protein |-> 500, carbs |-> 2500, fat |-> 200, fiber |-> 100,
                sugar |-> 100, sodium |-> 18200, iron |-> 180, calcium |-> 1800, vitaminC |-> 0],
   sandwich |-> [calories |-> 25000, protein |-> 1200, carbs |-> 3000, fat |-> 800, fiber |-> 300,
                 sugar |-> 400, sodium |-> 45000, iron |-> 220, calcium |-> 8000, vitaminC |-> 500],
   cake |-> [calories |-> 32000, protein |-> 400, carbs |-> 5800, fat |-> 1200, fiber |-> 100,
             sugar |-> 4500, sodium |-> 28500, iron |-> 120, calcium |-> 8000, vitaminC |-> 0],
   default |-> [calories |-> 20000, protein |-> 800, carbs |-> 2800, fat |-> 700, fiber |-> 300,
                sugar |-> 500, sodium |-> 30000, iron |-> 180, calcium |-> 6000, vitaminC |-> 500]]

\* a heuristic that names its result after the food type it picked
generateSmartFallbackRenamed(foodName) ==
  [displayName |-> capitalize(categorizeFoodType(foodName)),
   weight |-> estimateWeight(foodName),
   nutrition |-> categoryNutrition[categorizeFoodType(foodName)],
   category |-> "Food Item",
   healthScore |-> 600,
   ingredients |-> <<"mixed ingredients">>,
   tips |-> "Nutrition estimated based on similar foods"]

generateSmartFallback(foodName) ==
  [displayName |-> foodName,
   weight |-> estimateWeight(foodName),
   nutrition |-> categoryNutrition[categorizeFoodType(foodName)],
   category |-> "Food Item",
   healthScore |-> 600,
   ingredients |-> <<"mixed ingredients">>,
   tips |-> "Nutrition estimated based on similar foods"]

(***************************************************************************)
(* Aggregation engine.                                                     *)
(***************************************************************************)
multiplyNutrition(perUnit, count) ==
  [key \in DOMAIN perUnit |->
     IF key \in IntegerFields
     THEN MathRound(perUnit[key] * count)
     ELSE RoundTenth(perUnit[key] * count)]

RECURSIVE SumField(_, _)
\* grandTotal[key] += item.totalNutrition[key] || 0, over the items
SumField(items, key) ==
  IF items = <<>> THEN 0
  ELSE GetOr(Head(items).totalNutrition, key, 0) + SumField(Tail(items), key)

calculateGrandTotal(items) ==
  [key \in NutritionFields |->
     IF key \in IntegerFields
     THEN MathRound(SumField(items, key))
     ELSE RoundTenth(SumField(items, key))]

\* items.reduce((sum, item) => sum + item.visibleCount, 0)
TotalPieces(items) == SumSeq([i \in 1..Len(items) |-> items[i].visibleCount])

\* "<count> <name>" with an "s" when count > 1
ItemDescription(item) ==
  IntToStr(item.visibleCount) \o " " \o item.name
  \o (IF item.visibleCount > 1 THEN "s" ELSE "")

createFoodName(items) ==
  IF Len(items) = 1
  THEN (IF items[1].visibleCount > 1
        THEN IntToStr(items[1].visibleCount) \o " " \o items[1].name \o "s"
        ELSE items[1].name)
  ELSE "Combo: "
       \o (IF Len(items) >= 1 THEN ItemDescription(items[1]) ELSE "")
       \o (IF Len(items) >= 2 THEN " + " \o ItemDescription(items[2]) ELSE "")
       \o (IF Len(items) >= 3 THEN " + " \o ItemDescription(items[3]) ELSE "")
       \o (IF Len(items) > 3 THEN " + more" ELSE "")

\* parseInt(item.totalWeight) || 0, summed over the items
TotalWeight(items) ==
  SumSeq([i \in 1..Len(items) |->
            LET w == parseInt(items[i].totalWeight)
            IN IF w.nan THEN 0 ELSE w.val])

createServingDescription(items) ==
  IntToStr(TotalPieces(items)) \o " piece"
  \o (IF TotalPieces(items) > 1 THEN "s" ELSE "")
  \o " total (" \o IntToStr(TotalWeight(items)) \o "g)"

RECURSIVE JoinTips(_)
\* tips.join('. ')
JoinTips(tips) ==
  IF Len(tips) = 1 THEN tips[1] ELSE tips[1] \o ". " \o JoinTips(Tail(tips))

generateQuantityTips(items, nutrition) ==
  LET totalPieces == TotalPieces(items)
      hasAIGenerated == \E i \in 1..Len(items) : GetOr(items[i], "generatedByAI", FALSE)
      tips ==
        (IF totalPieces >= 6
         THEN <<"Large meal - consider sharing or saving some for later">>
         ELSE IF totalPieces >= 3
         THEN <<"Good portion size for a satisfying meal">>
         ELSE <<>>)
        \o (IF nutrition.protein > 2000
            THEN <<"High protein content (" \o NumToStr(nutrition.protein)
                   \o "g) - great for muscle building">>
            ELSE <<>>)
        \o (IF nutrition.calories > 60000
            THEN <<"High-calorie meal - balance with lighter foods during the day">>
            ELSE <<>>)
        \o (IF hasAIGenerated
            THEN <<"Nutrition data enhanced with AI analysis">>
            ELSE <<>>)
  IN IF Len(tips) > 0 THEN JoinTips(tips) \o "." ELSE "Enjoy your meal!"

categorizeCombo(items) ==
  IF Len(items) = 1 THEN GetOr(items[1], "category", "Food Item") ELSE "Combo Meal"

\* the variable score of calculateAccurateHealthScore before its return
HealthScorePoints(nutrition) ==
  600
  + (IF nutrition.protein > 1500 THEN 100 ELSE 0)
  + (IF nutrition.fiber > 800 THEN 100 ELSE 0)
  + (IF nutrition.iron > 300 THEN 50 ELSE 0)
  + (IF nutrition.vitaminC > 1000 THEN 50 ELSE 0)
  - (IF nutrition.sodium > 80000 THEN 100 ELSE 0)
  - (IF nutrition.calories > 80000 THEN 50 ELSE 0)
  - (IF nutrition.fat > 3000 THEN 50 ELSE 0)
  - (IF nutrition.sugar > 2500 THEN 50 ELSE 0)

\* a return that keeps Math.round(score * 2) as it is, neither halved nor clamped
calculateAccurateHealthScoreUnhalved(nutrition) ==
  MathRound(HealthScorePoints(nutrition) * 2)

\* Math.max(1, Math.min(10, Math.round(score * 2) / 2))
calculateAccurateHealthScore(nutrition) ==
  Max(100, Min(1000, MathRound(HealthScorePoints(nutrition) * 2) \div 2))

\* items.some(item => item.ingredients?.some(ing => terms.includes(ing.toLowerCase())))
HasIngredientIn(items, terms) ==
  \E i \in 1..Len(items) :
    /\ "ingredients" \in DOMAIN items[i]
    /\ \E j \in 1..Len(items[i].ingredients) :
         toLowerCase(items[i].ingredients[j]) \in terms

getDietaryInfo(items) ==
  LET hasNonVeg == HasIngredientIn(items, {"chicken", "mutton", "meat", "egg"})
      hasDairy == HasIngredientIn(items, {"butter", "ghee", "cream", "milk", "cheese"})
      hasGluten == HasIngredientIn(items, {"wheat", "flour", "bread"})
      totalProtein ==
        SumSeq([i \in 1..Len(items) |-> GetOr(items[i].totalNutrition, "protein", 0)])
  IN [isVegetarian |-> ~hasNonVeg,
      isVegan |-> ~hasNonVeg /\ ~hasDairy,
      isGlutenFree |-> ~hasGluten,
      isHighProtein |-> totalProtein > 2000,
      isBalanced |-> Len(items) >= 2]

RECURSIVE Dedupe(_, _)
\* the insertion order of a Set filled from s
Dedupe(s, seen) ==
  IF s = <<>> THEN <<>>
  ELSE IF Head(s) \in seen THEN Dedupe(Tail(s), seen)
  ELSE <<Head(s)>> \o Dedupe(Tail(s), seen \cup {Head(s)})

RECURSIVE AllIngredients(_)
AllIngredients(items) ==
  IF items = <<>> THEN <<>>
  ELSE GetOr(Head(items), "ingredients", <<>>) \o AllIngredients(Tail(items))

extractIngredients(items) ==
  LET all == Dedupe(AllIngredients(items), {})
  IN SubSeq(all, 1, Min(Len(all), 8))

(***************************************************************************)
(* JSON.parse.  A parsed value carries its type: a string, a number (kept  *)
(* as its literal), a literal (true, false, null), an array or an object.  *)
(***************************************************************************)
Str(s) == [t |-> "str", s |-> s]

Num(lit) == [t |-> "num", lit |-> lit]

\* s.indexOf(c, i - 1) + 1: least position >= i of the character c, 0 when none
IndexOfFrom(s, c, i) ==
  LET at == {k \in i..Len(s) : SubSeq(s, k, k) = c}
  IN IF at = {} THEN 0 ELSE CHOOSE k \in at : \A j \in at : k <= j

\* s.lastIndexOf(c) + 1: greatest position of the character c, 0 when none
LastIndexOf(s, c) ==
  LET at == {k \in 1..Len(s) : SubSeq(s, k, k) = c}
  IN IF at = {} THEN 0 ELSE CHOOSE k \in at : \A j \in at : k >= j

StartsWith(s, prefix) == Slice(s, 1, Len(prefix)) = prefix

Drop(s, n) == Slice(s, n + 1, Len(s))

JsonFail == [ok |-> FALSE]

JsonString(s) ==
  LET q == IndexOfFrom(s, "\"", 2)
  IN IF q = 0 THEN JsonFail
     ELSE [ok |-> TRUE, val |-> Str(Slice(s, 2, q - 1)), rest |-> Drop(s, q)]

JsonNumber(s) ==
  LET neg == StartsWith(s, "-")
      int == LeadingDigits(IF neg THEN Tail(s) ELSE s, 0, 0)
      hasFrac == StartsWith(int.rest, ".")
      frac == LeadingDigits(IF hasFrac THEN Tail(int.rest) ELSE int.rest, 0, 0)
      rest == IF hasFrac THEN frac.rest ELSE int.rest
  IN IF int.len = 0 \/ (hasFrac /\ frac.len = 0) THEN JsonFail
     ELSE [ok |-> TRUE, val |-> Num(Slice(s, 1, Len(s) - Len(rest))), rest |-> rest]

JsonLiteral(s) ==
  IF StartsWith(s, "true") THEN [ok |-> TRUE, val |-> [t |-> "lit", s |-> "true"], rest |-> Drop(s, 4)]
  ELSE IF StartsWith(s, "false") THEN [ok |-> TRUE, val |-> [t |-> "lit", s |-> "false"], rest |-> Drop(s, 5)]
  ELSE IF StartsWith(s, "null") THEN [ok |-> TRUE, val |-> [t |-> "lit", s |-> "null"], rest |-> Drop(s, 4)]
  ELSE JsonFail

RECURSIVE JsonValue(_), JsonMembers(_, _), JsonElements(_, _)

\* a parsed value, the blanks after it skipped
JsonSkipRest(r) == IF r.ok THEN [r EXCEPT !.rest = SkipSpace(r.rest)] ELSE r

\* what follows an opening brace
JsonObject(s) ==
  IF StartsWith(s, "}")
  THEN [ok |-> TRUE, val |-> [t |-> "obj", o |-> <<>>], rest |-> Tail(s)]
  ELSE JsonMembers(s, <<>>)

\* what follows an opening bracket
JsonArray(s) ==
  IF StartsWith(s, "]")
  THEN [ok |-> TRUE, val |-> [t |-> "arr", a |-> <<>>], rest |-> Tail(s)]
  ELSE JsonElements(s, <<>>)

\* a value that starts at the head of s
JsonValueAt(s) ==
  IF s = "" THEN JsonFail
  ELSE IF Head(s) = "{" THEN JsonObject(SkipSpace(Tail(s)))
  ELSE IF Head(s) = "[" THEN JsonArray(SkipSpace(Tail(s)))
  ELSE IF Head(s) = "\"" THEN JsonString(s)
  ELSE IF IsDigit(Head(s)) \/ Head(s) = "-" THEN JsonNumber(s)
  ELSE JsonLiteral(s)

\* a value with the blanks around it
JsonValue(s) == JsonSkipRest(JsonValueAt(SkipSpace(s)))

\* after the value v of the member key: the next member or the closing brace;
\* a repeated key keeps the last value
JsonMemberNext(key, v, acc) ==
  IF ~v.ok THEN JsonFail
  ELSE IF StartsWith(v.rest, ",") THEN JsonMembers(Tail(v.rest), (key :> v.val) @@ acc)
  ELSE IF StartsWith(v.rest, "}")
       THEN [ok |-> TRUE, val |-> [t |-> "obj", o |-> (key :> v.val) @@ acc],
             rest |-> Tail(v.rest)]
  ELSE JsonFail

\* after the key k of a member: the colon and the value
JsonMemberValue(k, acc) ==
  IF k.ok /\ StartsWith(SkipSpace(k.rest), ":")
  THEN JsonMemberNext(k.val.s, JsonValue(Tail(SkipSpace(k.rest))), acc)
  ELSE JsonFail

\* "key": value pairs up to the closing brace
JsonMembers(s, acc) ==
  IF StartsWith(SkipSpace(s), "\"")
  THEN JsonMemberValue(JsonString(SkipSpace(s)), acc)
  ELSE JsonFail

\* after the element v of an array: the next element or the closing bracket
JsonElementNext(v, acc) ==
  IF ~v.ok THEN JsonFail
  ELSE IF StartsWith(v.rest, ",") THEN JsonElements(Tail(v.rest), Append(acc, v.val))
  ELSE IF StartsWith(v.rest, "]")
       THEN [ok |-> TRUE, val |-> [t |-> "arr", a |-> Append(acc, v.val)], rest |-> Tail(v.rest)]
  ELSE JsonFail

\* values up to the closing bracket
JsonElements(s, acc) == JsonElementNext(JsonValue(s), acc)

\* the parsed text when nothing follows the value
JsonWhole(r) == IF r.ok /\ r.rest = "" THEN [ok |-> TRUE, val |-> r.val] ELSE JsonFail

\* JSON.parse(s): the value, or ok = FALSE where JSON.parse throws
JSONparse(s) == JsonWhole(JsonValue(s))

\* text.match(/\{[\s\S]*\}/): from the first "{" to the last "}" after it
jsonMatch(text) ==
  LET first == IndexOfFrom(text, "{", 1)
      last == LastIndexOf(text, "}")
  IN IF first = 0 \/ last < first THEN [matched |-> FALSE]
     ELSE [matched |-> TRUE, str |-> Slice(text, first, last)]

\* String(v) of a parsed string or number
StringOf(v) == IF v.t = "num" THEN v.lit ELSE v.s

\* the value of a decimal literal in hundredths (further digits dropped)
NumberValue(lit) ==
  LET neg == StartsWith(lit, "-")
      int == LeadingDigits(IF neg THEN Tail(lit) ELSE lit, 0, 0)
      f == IF StartsWith(int.rest, ".") THEN Tail(int.rest) ELSE ""
      d1 == IF Len(f) >= 1 THEN DigitVal(SubSeq(f, 1, 1)) ELSE 0
      d2 == IF Len(f) >= 2 THEN DigitVal(SubSeq(f, 2, 2)) ELSE 0
      abs == int.val * 100 + d1 * 10 + d2
  IN IF neg THEN -abs ELSE abs

(***************************************************************************)
(* JavaScript values as they come out of JSON.parse.                       *)
(***************************************************************************)
null == [t |-> "lit", s |-> "null"]

\* the truthiness of a parsed value
Truthy(v) ==
  CASE v.t = "str" -> v.s # ""
    [] v.t = "num" -> NumberValue(v.lit) # 0
    [] v.t = "lit" -> v.s = "true"
    [] OTHER -> TRUE

\* obj.key is present and truthy
Has(obj, key) == key \in DOMAIN obj /\ Truthy(obj[key])

\* parseInt(v) of a value that may be undefined; objects and undefined give NaN
parseIntOf(obj, key) ==
  IF key \in DOMAIN obj /\ obj[key].t \in {"str", "num"}
  THEN parseInt(StringOf(obj[key]))
  ELSE NaN

(***************************************************************************)
(* Response text extractor: the regular expressions of                     *)
(* extractQuantitiesFromText.                                              *)
(***************************************************************************)
quantityPatterns ==
  << <<"pizza", "burger", "sandwich", "pasta", "noodles", "dosa", "idli", "vada">>,
     <<"paratha", "roti", "chapati">>,
     <<"bonda", "samosa">>,
     <<"poori", "puri">> >>

RECURSIVE FirstWordAt(_, _, _)
\* the first alternative of words that text carries at position i, ignoring
\* case; "" when none does
FirstWordAt(text, i, words) ==
  IF words = <<>> THEN ""
  ELSE IF toLowerCase(Slice(text, i, i + Len(Head(words)) - 1)) = Head(words)
       THEN Slice(text, i, i + Len(Head(words)) - 1)
       ELSE FirstWordAt(text, i, Tail(words))

\* /(\d+)\s*(w1|w2|...)/ tried at position i
MatchAt(text, i, words) ==
  LET d == LeadingDigits(Drop(text, i - 1), 0, 0)
      afterDigits == i + d.len
      afterSpace == Len(text) - Len(SkipSpace(d.rest)) + 1
      word == IF d.len = 0 THEN "" ELSE FirstWordAt(text, afterSpace, words)
  IN IF word = "" THEN [matched |-> FALSE]
     ELSE [matched |-> TRUE,
           digits |-> Slice(text, i, afterDigits - 1),
           word |-> word,
           next |-> afterSpace + Len(word)]

\* least position >= i of a digit in text, 0 when there is none
NextDigit(text, i) ==
  LET at == {k \in i..Len(text) : IsDigit(SubSeq(text, k, k))}
  IN IF at = {} THEN 0 ELSE CHOOSE k \in at : \A j \in at : k <= j

RECURSIVE matchAll(_, _, _), MatchNext(_, _, _, _)
\* [...text.matchAll(pattern)] from position i on; a match starts at a digit
matchAll(text, words, i) ==
  IF NextDigit(text, i) = 0 THEN <<>>
  ELSE MatchNext(text, words, NextDigit(text, i), MatchAt(text, NextDigit(text, i), words))

\* the matches from the digit at k on, m being the attempt at k
MatchNext(text, words, k, m) ==
  IF m.matched THEN <<m>> \o matchAll(text, words, m.next)
  ELSE matchAll(text, words, k + 1)

RECURSIVE ItemsOfMatches(_, _)
ItemsOfMatches(matches, userInput) ==
  IF matches = <<>> THEN <<>>
  ELSE LET count == parseInt(Head(matches).digits).val
           foodType == toLowerCase(Head(matches).word)
       IN (IF count > 0 /\ count <= 20
           THEN << [foodName |-> Str(capitalize(foodType)),
                    visibleCount |-> Num(IntToStr(count)),
                    perUnitWeight |-> Str(estimateWeight(foodType)),
                    userProvided |-> [t |-> "lit", s |-> IF Truthy(userInput) THEN "true" ELSE "false"]] >>
           ELSE <<>>)
          \o ItemsOfMatches(Tail(matches), userInput)

RECURSIVE ItemsOfPatterns(_, _, _)
ItemsOfPatterns(text, patterns, userInput) ==
  IF patterns = <<>> THEN <<>>
  ELSE ItemsOfMatches(matchAll(text, Head(patterns), 1), userInput)
       \o ItemsOfPatterns(text, Tail(patterns), userInput)

RECURSIVE FirstFoodType(_, _)
\* the first of foodTypes that the lowercased text includes, as a one-item list
FirstFoodType(text, foodTypes) ==
  IF foodTypes = <<>> THEN <<>>
  ELSE IF includes(toLowerCase(text), Head(foodTypes))
       THEN << [foodName |-> Str(capitalize(Head(foodTypes))),
                visibleCount |-> Num("1"),
                perUnitWeight |-> Str(estimateWeight(Head(foodTypes))),
                userProvided |-> [t |-> "lit", s |-> "false"]] >>
       ELSE FirstFoodType(text, Tail(foodTypes))

\* the { detectedItems, confidence: 0.8 } that extractQuantitiesFromText hands
\* to formatQuantityResponse
ExtractedData(detectedItems) ==
  [detectedItems |->
     [t |-> "arr",
      a |-> [i \in 1..Len(detectedItems) |-> [t |-> "obj", o |-> detectedItems[i]]]],
   confidence |-> Num("0.8")]

\* lines 493-503: without a match of the patterns, one item of the first food
\* type the text names
FoundOrFirstFoodType(found, text) ==
  IF Len(found) = 0
  THEN FirstFoodType(text, <<"pizza", "burger", "paratha", "dosa", "noodles">>)
  ELSE found

extractQuantitiesFromText(text, userInput) ==
  ExtractedData(FoundOrFirstFoodType(ItemsOfPatterns(text, quantityPatterns, userInput), text))

(***************************************************************************)
(* formatQuantityResponse, one detected item at a time.                    *)
(***************************************************************************)
\* const count = parseInt(item.visibleCount) || 1
CountOf(item) ==
  LET p == parseIntOf(item, "visibleCount")
  IN IF p.nan \/ p.val = 0 THEN 1 ELSE p.val

\* item.foodName.toLowerCase() throws a TypeError unless foodName is a string
HasFoodName(item) == "foodName" \in DOMAIN item /\ item.foodName.t = "str"

\* item.perUnitWeight || perUnitData.weight
WeightHint(item, perUnitData) ==
  IF Has(item, "perUnitWeight") THEN StringOf(item.perUnitWeight) ELSE perUnitData.weight

\* the finalPerUnitData built from a generated aiNutrition (lines 225-233)
FromAINutrition(item, perUnitData, aiNutrition) ==
  [displayName |-> item.foodName.s,
   weight |-> IF GetOr(aiNutrition, "standardWeight", "") # ""
              THEN aiNutrition.standardWeight
              ELSE WeightHint(item, perUnitData),
   category |-> IF GetOr(aiNutrition, "category", "") # ""
                THEN aiNutrition.category ELSE "Food Item",
   healthScore |-> IF GetOr(aiNutrition, "healthScore", 0) # 0
                   THEN aiNutrition.healthScore ELSE 600,
   ingredients |-> GetOr(aiNutrition, "ingredients", <<"mixed ingredients">>),
   tips |-> IF GetOr(aiNutrition, "tips", "") # ""
            THEN aiNutrition.tips ELSE "Enjoy as part of a balanced diet"]
  @@ (IF "perUnitNutrition" \in DOMAIN aiNutrition
      THEN [nutrition |-> aiNutrition.perUnitNutrition]
      ELSE <<>>)

\* the fields of a parsed nutritionData that lines 225-233 read, numbers in
\* hundredths; a field that is missing or falsy is left out
AINutritionOf(o) ==
  (IF Has(o, "perUnitNutrition") /\ o.perUnitNutrition.t = "obj"
   THEN [perUnitNutrition |->
           [key \in DOMAIN o.perUnitNutrition.o |->
              NumberValue(o.perUnitNutrition.o[key].lit)]]
   ELSE <<>>)
  @@ (IF Has(o, "standardWeight") THEN [standardWeight |-> StringOf(o.standardWeight)] ELSE <<>>)
  @@ (IF Has(o, "category") THEN [category |-> StringOf(o.category)] ELSE <<>>)
  @@ (IF Has(o, "healthScore") THEN [healthScore |-> NumberValue(o.healthScore.lit)] ELSE <<>>)
  @@ (IF Has(o, "ingredients") /\ o.ingredients.t = "arr"
      THEN [ingredients |-> [i \in 1..Len(o.ingredients.a) |-> StringOf(o.ingredients.a[i])]]
      ELSE <<>>)
  @@ (IF Has(o, "tips") THEN [tips |-> StringOf(o.tips)] ELSE <<>>)

\* `${parseInt(weight) * count}g`
TotalWeightString(weight, count) ==
  LET w == parseInt(weight)
  IN IF w.nan THEN "NaNg" ELSE IntToStr(w.val * count) \o "g"

\* the object pushed on processedItems (lines 241-261)
ProcessedItem(item, perUnitData, finalPerUnitData, userInput) ==
  LET count == CountOf(item)
  IN [name |-> IF finalPerUnitData.displayName # ""
               THEN finalPerUnitData.displayName ELSE item.foodName.s,
      visibleCount |-> count,
      perUnitWeight |-> finalPerUnitData.weight,
      totalWeight |-> TotalWeightString(finalPerUnitData.weight, count),
      perUnitNutrition |-> finalPerUnitData.nutrition,
      totalNutrition |-> multiplyNutrition(finalPerUnitData.nutrition, count),
      userProvided |-> Truthy(userInput),
      category |-> finalPerUnitData.category,
      healthScore |-> finalPerUnitData.healthScore,
      ingredients |-> finalPerUnitData.ingredients,
      tips |-> finalPerUnitData.tips,
      portion |-> [size |-> IF count > 3 THEN "Large"
                            ELSE IF count > 1 THEN "Medium" ELSE "Small",
                   quantity |-> IntToStr(count) \o " piece"
                                \o (IF count > 1 THEN "s" ELSE ""),
                   weight |-> TotalWeightString(finalPerUnitData.weight, count)]]
     @@ (IF "needsAIGeneration" \in DOMAIN perUnitData
         THEN [generatedByAI |-> perUnitData.needsAIGeneration]
         ELSE <<>>)

\* the report formatQuantityResponse returns (lines 264-284)
QuantityReport(processedItems, confidence, userInput) ==
  LET grandTotalNutrition == calculateGrandTotal(processedItems)
  IN [foodName |-> createFoodName(processedItems),
      isComboMeal |-> Len(processedItems) > 1,
      itemCount |-> Len(processedItems),
      totalFoodPieces |-> TotalPieces(processedItems),
      individualItems |-> processedItems,
      confidence |-> confidence,
      category |-> categorizeCombo(processedItems),
      servingSize |-> createServingDescription(processedItems),
      nutrition |-> grandTotalNutrition,
      healthScore |-> calculateAccurateHealthScore(grandTotalNutrition),
      dietaryInfo |-> getDietaryInfo(processedItems),
      ingredients |-> extractIngredients(processedItems),
      tips |-> generateQuantityTips(processedItems, grandTotalNutrition),
      method |-> IF Truthy(userInput)
                 THEN "Gemini 2.5 - User Assisted + AI Nutrition"
                 ELSE "Gemini 2.5 - AI Nutrition Enhanced",
      userAssisted |-> Truthy(userInput),
      hasAIGeneratedNutrition |->
        \E i \in 1..Len(processedItems) : GetOr(processedItems[i], "generatedByAI", FALSE)]

(***************************************************************************)
(* Label providers and the local fallback.                                 *)
(***************************************************************************)
\* both branches of formatSimpleResponse build the same report, from the
\* smart fallback (lines 1535-1572) or from the catalog entry (1576-1612)
SimpleReport(d, method, confidence) ==
  [foodName |-> d.displayName,
   isComboMeal |-> FALSE,
   itemCount |-> 1,
   totalFoodPieces |-> 1,
   individualItems |->
     << [name |-> d.displayName,
         visibleCount |-> 1,
         perUnitWeight |-> d.weight,
         totalWeight |-> d.weight,
         perUnitNutrition |-> d.nutrition,
         totalNutrition |-> d.nutrition,
         generatedByAI |-> FALSE,
         portion |-> [size |-> "Medium", quantity |-> "1 piece", weight |-> d.weight]] >>,
   confidence |-> confidence,
   category |-> d.category,
   servingSize |-> "1 piece (" \o d.weight \o ")",
   nutrition |-> d.nutrition,
   healthScore |-> d.healthScore,
   dietaryInfo |-> [isVegetarian |-> TRUE, isVegan |-> FALSE, isGlutenFree |-> FALSE,
                    isHighProtein |-> FALSE, isBalanced |-> FALSE],
   ingredients |-> d.ingredients,
   tips |-> d.tips,
   method |-> method,
   hasAIGeneratedNutrition |-> FALSE]

\* the entry the report is built from
SimpleData(perUnitData, label) ==
  IF "needsAIGeneration" \in DOMAIN perUnitData
  THEN generateSmartFallback(label)
  ELSE perUnitData

formatSimpleResponse(label, method, confidence) ==
  SimpleReport(SimpleData(getPerUnitNutrition(label), label), method, confidence)

(***************************************************************************)
(* getFallbackData (lines 1615-1679).                                      *)
(***************************************************************************)
\* individualItems of the fallback report
FallbackItems(parathaData, bondaData) ==
  << [name |-> parathaData.displayName,
      visibleCount |-> 2,
      perUnitWeight |-> parathaData.weight,
      totalWeight |-> TotalWeightString(parathaData.weight, 2),
      perUnitNutrition |-> parathaData.nutrition,
      totalNutrition |-> multiplyNutrition(parathaData.nutrition, 2),
      generatedByAI |-> FALSE,
      portion |-> [size |-> "Medium", quantity |-> "2 pieces",
                   weight |-> TotalWeightString(parathaData.weight, 2)]],
     [name |-> bondaData.displayName,
      visibleCount |-> 1,
      perUnitWeight |-> bondaData.weight,
      totalWeight |-> bondaData.weight,
      perUnitNutrition |-> bondaData.nutrition,
      totalNutrition |-> bondaData.nutrition,
      generatedByAI |-> FALSE,
      portion |-> [size |-> "Small", quantity |-> "1 piece",
                   weight |-> bondaData.weight]] >>

FallbackReport(items, imageUri, userInput) ==
  [foodName |-> "Indian Combo: 2 Plain Parathas + 1 Aloo Bonda",
   isComboMeal |-> TRUE,
   itemCount |-> 2,
   totalFoodPieces |-> 3,
   individualItems |-> items,
   confidence |-> 60,
   category |-> "Indian Combo",
   servingSize |-> "3 pieces total (185g)",
   nutrition |-> calculateGrandTotal(items),
   healthScore |-> 650,
   dietaryInfo |-> [isVegetarian |-> TRUE, isVegan |-> FALSE, isGlutenFree |-> FALSE,
                    isHighProtein |-> FALSE, isBalanced |-> TRUE],
   ingredients |-> <<"wheat flour", "potato", "spices", "oil">>,
   tips |-> "Estimated quantities - AI analysis failed",
   method |-> "Local Fallback",
   imageUri |-> imageUri,
   userInput |-> userInput,
   isEstimate |-> TRUE,
   hasAIGeneratedNutrition |-> FALSE]

getFallbackData(imageUri, userInput) ==
  FallbackReport(FallbackItems(getPerUnitNutrition("paratha"), getPerUnitNutrition("bonda")),
                 imageUri, userInput)

(***************************************************************************)
(* Barcode path.                                                           *)
(***************************************************************************)
calculatePackagedHealthScore(nutriments) ==
  LET score == 500
        + (IF GetOr(nutriments, "proteins_100g", 0) > 1000 THEN 100 ELSE 0)
        + (IF GetOr(nutriments, "fiber_100g", 0) > 500 THEN 100 ELSE 0)
        + (IF GetOr(nutriments, "sodium_100g", 0) < 30000 THEN 100 ELSE 0)
        - (IF GetOr(nutriments, "sugars_100g", 0) > 1500 THEN 100 ELSE 0)
        - (IF GetOr(nutriments, "fat_100g", 0) > 2000 THEN 100 ELSE 0)
        - (IF GetOr(nutriments, "sodium_100g", 0) > 80000 THEN 200 ELSE 0)
  IN Max(100, Min(1000, score))

RECURSIVE trim(_)
\* String.prototype.trim (blanks at both ends)
trim(s) ==
  IF s # "" /\ IsSpace(Head(s)) THEN trim(Tail(s))
  ELSE IF s # "" /\ IsSpace(SubSeq(s, Len(s), Len(s))) THEN trim(Slice(s, 1, Len(s) - 1))
  ELSE s

RECURSIVE split(_, _)
\* s.split(sep) for a one-character separator
split(s, sep) ==
  LET i == IndexOfFrom(s, sep, 1)
  IN IF i = 0 THEN <<s>>
     ELSE <<Slice(s, 1, i - 1)>> \o split(Slice(s, i + 1, Len(s)), sep)

\* the report recognizeBarcode builds from a product (lines 1689-1727)
BarcodeReport(product, barcode) ==
  LET nutriments == GetOr(product, "nutriments", <<>>)
      parts == IF GetOr(product, "ingredients_text", "") # ""
               THEN split(product.ingredients_text, ",")
               ELSE <<>>
      trimmed == [i \in 1..Len(parts) |-> trim(parts[i])]
      labels == GetOr(product, "labels", "")
  IN [foodName |-> IF GetOr(product, "product_name", "") # ""
                   THEN product.product_name ELSE "Unknown Product",
      isComboMeal |-> FALSE,
      itemCount |-> 1,
      totalFoodPieces |-> 1,
      confidence |-> 95,
      category |-> "Packaged Food",
      servingSize |-> "100g",
      brand |-> IF GetOr(product, "brands", "") # "" THEN product.brands ELSE "Unknown Brand",
      nutrition |->
        [calories |-> MathRound(GetOr(nutriments, "energy-kcal_100g", 0)),
         protein |-> RoundTenth(GetOr(nutriments, "proteins_100g", 0)),
         carbs |-> RoundTenth(GetOr(nutriments, "carbohydrates_100g", 0)),
         fat |-> RoundTenth(GetOr(nutriments, "fat_100g", 0)),
         fiber |-> RoundTenth(GetOr(nutriments, "fiber_100g", 0)),
         sugar |-> RoundTenth(GetOr(nutriments, "sugars_100g", 0)),
         sodium |-> MathRound(GetOr(nutriments, "sodium_100g", 0)),
         iron |-> RoundTenth(GetOr(nutriments, "iron_100g", 0)),
         calcium |-> MathRound(GetOr(nutriments, "calcium_100g", 0)),
         vitaminC |-> RoundTenth(GetOr(nutriments, "vitamin-c_100g", 0))],
      ingredients |-> SubSeq(trimmed, 1, Min(Len(trimmed), 8)),
      healthScore |-> calculatePackagedHealthScore(nutriments),
      dietaryInfo |->
        [isVegetarian |-> includes(labels, "Vegetarian"),
         isVegan |-> includes(labels, "Vegan"),
         isGlutenFree |-> includes(labels, "Gluten-free"),
         isLowCarb |-> GetOr(nutriments, "carbohydrates_100g", 0) < 1000,
         isHighProtein |-> GetOr(nutriments, "proteins_100g", 0) > 1500],
      tips |-> "Check product label for complete nutritional information",
      method |-> "Barcode Recognition",
      barcode |-> barcode,
      hasAIGeneratedNutrition |-> FALSE]

(***************************************************************************)
(* NotificationService (src/unnamed/part_001).  Each of its methods is an  *)
(* async function: a call runs up to its next await, and calls in progress *)
(* take their steps in any order.                                          *)
(***************************************************************************)
Tasks == 1..MaxTasks

Days == 1..MaxDays

\* Object.keys(this.mealTimes), and the meal types a completion is sent for
mealTimes == <<"breakfast", "lunch", "snacks", "dinner">>

reminderTimes == <<"breakfast", "lunch", "snacks", "dinner">>

MealTypes == {"breakfast", "dinner"}

\* the identifiers scheduleDailyMealReminders schedules, in its order
ReminderIdentifiers ==
  [i \in 1..Len(mealTimes) |-> mealTimes[i] \o "_mealTime"]
  \o [i \in 1..Len(reminderTimes) |-> reminderTimes[i] \o "_reminder"]

\* a task that runs no call
IdleTask == [op |-> "none", pc |-> "idle"]

\* the service after its construction, on the first day, nothing stored
NotificationServiceConstructed ==
  /\ today = 1
  /\ AsyncStorage = [notifications_initialized_today |-> 0, completion |-> {}]
  /\ scheduled = 0
  /\ presented = [k \in MealTypes \X Days |-> 0]
  /\ reminderRuns = [d \in Days |-> 0]
  /\ succeeded = {}
  /\ tasks = [t \in Tasks |-> IdleTask]
  /\ started = 0

\* the call returns to its caller
Return(t, result) ==
  [op |-> tasks[t].op, pc |-> "returned", result |-> result,
   afterSuccess |-> GetOr(tasks[t], "afterSuccess", FALSE),
   ranReminders |-> GetOr(tasks[t], "ranReminders", FALSE)]

\* initialize up to the await of shouldInitialize: the date is taken first
initialize(t) ==
  /\ tasks[t].pc = "idle" /\ started < MaxCalls
  /\ started' = started + 1
  /\ tasks' = [tasks EXCEPT ![t] = [op |-> "initialize", pc |-> "shouldInitialize",
                                    startDay |-> today, today |-> today,
                                    afterSuccess |-> today \in succeeded,
                                    ranReminders |-> FALSE]]
  /\ UNCHANGED <<today, AsyncStorage, scheduled, presented, reminderRuns, succeeded>>
  /\ UNCHANGED recognitionVars

\* a call of initialize that returns true on the day it was made
SucceededOn(t) == IF tasks[t].startDay = today THEN {today} ELSE {}

\* shouldInitialize: lastInitDate === today gives false, an error of getItem
\* gives true
shouldInitialize(t, stored) ==
  IF stored THEN AsyncStorage.notifications_initialized_today # tasks[t].today ELSE TRUE

\* getItem settles (lines 39-50), and initialize goes on to line 74 or returns
ShouldInitializeSettles(t) ==
  /\ tasks[t].pc = "shouldInitialize"
  /\ \E stored \in BOOLEAN, isDevice \in BOOLEAN :
       IF ~shouldInitialize(t, stored)
       THEN /\ tasks' = [tasks EXCEPT ![t] = Return(t, TRUE)]
            /\ succeeded' = succeeded \cup SucceededOn(t)
       ELSE /\ tasks' = [tasks EXCEPT ![t] =
                           IF isDevice THEN [@ EXCEPT !.pc = "getPermissionsAsync"]
                           ELSE Return(t, FALSE)]
            /\ UNCHANGED succeeded
  /\ UNCHANGED <<today, AsyncStorage, scheduled, presented, reminderRuns, started>>
  /\ UNCHANGED recognitionVars

\* line 85: scheduleDailyMealReminders up to its first await
EnterScheduleDailyMealReminders(t) ==
  /\ tasks' = [tasks EXCEPT ![t] = [@ EXCEPT !.pc = "cancelAllScheduledNotificationsAsync",
                                             !.ranReminders = TRUE]]
  /\ reminderRuns' = [reminderRuns EXCEPT ![today] = @ + 1]

\* the existing permission is known (lines 75-78); an error ends in the catch
GetPermissionsSettles(t) ==
  /\ tasks[t].pc = "getPermissionsAsync"
  /\ \E existingStatus \in {"granted", "undetermined", "throws"} :
       CASE existingStatus = "granted" -> EnterScheduleDailyMealReminders(t)
         [] existingStatus = "undetermined" ->
              /\ tasks' = [tasks EXCEPT ![t] = [@ EXCEPT !.pc = "requestPermissionsAsync"]]
              /\ UNCHANGED reminderRuns
         [] OTHER ->
              /\ tasks' = [tasks EXCEPT ![t] = Return(t, FALSE)]
              /\ UNCHANGED reminderRuns
  /\ UNCHANGED <<today, AsyncStorage, scheduled, presented, succeeded, started>>
  /\ UNCHANGED recognitionVars

\* the user has answered the request (lines 79-83)
RequestPermissionsSettles(t) ==
  /\ tasks[t].pc = "requestPermissionsAsync"
  /\ \E status \in {"granted", "denied"} :
       IF status = "granted"
       THEN EnterScheduleDailyMealReminders(t)
       ELSE /\ tasks' = [tasks EXCEPT ![t] = Return(t, FALSE)]
            /\ UNCHANGED reminderRuns
  /\ UNCHANGED <<today, AsyncStorage, scheduled, presented, succeeded, started>>
  /\ UNCHANGED recognitionVars

\* markAsInitialized up to its await: the date is taken when it is entered
EnterMarkAsInitialized(t) ==
  tasks' = [tasks EXCEPT ![t] = [@ EXCEPT !.pc = "markAsInitialized", !.today = today]]

\* scheduleDailyMealReminders, lines 106-109: the cancel settles; its error
\* is swallowed by the catch of line 125
CancelAllSettles(t) ==
  /\ tasks[t].pc = "cancelAllScheduledNotificationsAsync"
  /\ \E cancelled \in BOOLEAN :
       IF cancelled
       THEN /\ scheduled' = 0
            /\ tasks' = [tasks EXCEPT ![t] =
                           [op |-> @.op, pc |-> "scheduleMealNotification", idx |-> 1,
                            startDay |-> @.startDay, today |-> @.today,
                            afterSuccess |-> @.afterSuccess, ranReminders |-> TRUE]]
       ELSE /\ EnterMarkAsInitialized(t)
            /\ UNCHANGED scheduled
  /\ UNCHANGED <<today, AsyncStorage, presented, reminderRuns, succeeded, started>>
  /\ UNCHANGED recognitionVars

\* one turn of the loops of lines 112-122: scheduleMealNotification settles,
\* its own catch (line 160) having swallowed an error of the scheduler
ScheduleMealNotificationSettles(t) ==
  /\ tasks[t].pc = "scheduleMealNotification"
  /\ \E accepted \in BOOLEAN :
       scheduled' = IF accepted THEN scheduled + 1 ELSE scheduled
  /\ IF tasks[t].idx < Len(ReminderIdentifiers)
     THEN tasks' = [tasks EXCEPT ![t] = [@ EXCEPT !.idx = @ + 1]]
     ELSE EnterMarkAsInitialized(t)
  /\ UNCHANGED <<today, AsyncStorage, presented, reminderRuns, succeeded, started>>
  /\ UNCHANGED recognitionVars

\* setItem of markAsInitialized settles, its error swallowed (line 59), and
\* initialize returns true (line 88)
MarkAsInitializedSettles(t) ==
  /\ tasks[t].pc = "markAsInitialized"
  /\ \E stored \in BOOLEAN :
       AsyncStorage' = IF stored
                       THEN [AsyncStorage EXCEPT !.notifications_initialized_today = tasks[t].today]
                       ELSE AsyncStorage
  /\ tasks' = [tasks EXCEPT ![t] = Return(t, TRUE)]
  /\ succeeded' = succeeded \cup SucceededOn(t)
  /\ UNCHANGED <<today, scheduled, presented, reminderRuns, started>>
  /\ UNCHANGED recognitionVars

\* sendMealCompletionNotification up to its first await (lines 267-269)
sendMealCompletionNotification(t, mealType) ==
  /\ tasks[t].pc = "idle" /\ started < MaxCalls
  /\ started' = started + 1
  /\ tasks' = [tasks EXCEPT ![t] = [op |-> "sendMealCompletionNotification",
                                    pc |-> "getItem",
                                    key |-> <<mealType, today>>]]
  /\ UNCHANGED <<today, AsyncStorage, scheduled, presented, reminderRuns, succeeded>>
  /\ UNCHANGED recognitionVars

\* getItem settles (lines 269-274); an error ends in the catch of line 296
CompletionGetItemSettles(t) ==
  /\ tasks[t].pc = "getItem"
  /\ \E read \in BOOLEAN :
       tasks' = [tasks EXCEPT ![t] =
                   IF read /\ tasks[t].key \notin AsyncStorage.completion
                   THEN [@ EXCEPT !.pc = "scheduleNotificationAsync"]
                   ELSE Return(t, "undefined")]
  /\ UNCHANGED <<today, AsyncStorage, scheduled, presented, reminderRuns, succeeded, started>>
  /\ UNCHANGED recognitionVars

\* the notification is presented at once, trigger being null (lines 283-291)
CompletionScheduleSettles(t) ==
  /\ tasks[t].pc = "scheduleNotificationAsync"
  /\ \E sent \in BOOLEAN :
       IF sent
       THEN /\ presented' = [presented EXCEPT ![<<tasks[t].key[1], today>>] = @ + 1]
            /\ tasks' = [tasks EXCEPT ![t] = [@ EXCEPT !.pc = "setItem"]]
       ELSE /\ tasks' = [tasks EXCEPT ![t] = Return(t, "undefined")]
            /\ UNCHANGED presented
  /\ UNCHANGED <<today, AsyncStorage, scheduled, reminderRuns, succeeded, started>>
  /\ UNCHANGED recognitionVars

\* the key is marked as sent (line 294), unless setItem fails
CompletionSetItemSettles(t) ==
  /\ tasks[t].pc = "setItem"
  /\ \E stored \in BOOLEAN :
       AsyncStorage' = IF stored
                       THEN [AsyncStorage EXCEPT !.completion = @ \cup {tasks[t].key}]
                       ELSE AsyncStorage
  /\ tasks' = [tasks EXCEPT ![t] = Return(t, "undefined")]
  /\ UNCHANGED <<today, scheduled, presented, reminderRuns, succeeded, started>>
  /\ UNCHANGED recognitionVars

\* the caller has the result; the task is free for another call
Returned(t) ==
  /\ tasks[t].pc = "returned"
  /\ tasks' = [tasks EXCEPT ![t] = IdleTask]
  /\ UNCHANGED <<today, AsyncStorage, scheduled, presented, reminderRuns, succeeded, started>>
  /\ UNCHANGED recognitionVars

\* midnight passes
NextDay ==
  /\ today < MaxDays
  /\ today' = today + 1
  /\ UNCHANGED <<AsyncStorage, scheduled, presented, reminderRuns, succeeded, tasks, started>>
  /\ UNCHANGED recognitionVars

NotificationNext ==
  \/ \E t \in Tasks : initialize(t)
  \/ \E t \in Tasks : ShouldInitializeSettles(t)
  \/ \E t \in Tasks : GetPermissionsSettles(t)
  \/ \E t \in Tasks : RequestPermissionsSettles(t)
  \/ \E t \in Tasks : CancelAllSettles(t)
  \/ \E t \in Tasks : ScheduleMealNotificationSettles(t)
  \/ \E t \in Tasks : MarkAsInitializedSettles(t)
  \/ \E t \in Tasks, mealType \in MealTypes : sendMealCompletionNotification(t, mealType)
  \/ \E t \in Tasks : CompletionGetItemSettles(t)
  \/ \E t \in Tasks : CompletionScheduleSettles(t)
  \/ \E t \in Tasks : CompletionSetItemSettles(t)
  \/ \E t \in Tasks : Returned(t)
  \/ NextDay

(***************************************************************************)
(* Inputs: what the platform, the providers and the caller can supply.     *)
(***************************************************************************)
\* the code fence of a markdown reply; the apostrophe stands for the
\* backquote, which a TLA+ string cannot hold
Fence == "'''"

\* entries of a detectedItems array as the provider writes them: names the
\* catalog has and names it has not, and counts of every kind
DetectedItemJson ==
  <<"{\"foodName\":\"Momos\",\"visibleCount\":0,\"userProvided\":true}",
    "{\"foodName\":\"Dal Makhani\",\"visibleCount\":3,\"perUnitWeight\":\"150g\"}",
    "{\"foodName\":\"Mirchi Lachha Parantha\",\"visibleCount\":1}",
    "{\"foodName\":\"Butter Naan\",\"visibleCount\":-2}",
    "{\"visibleCount\":2}",
    "{\"foodName\":\"Jeera Rice\",\"visibleCount\":2.7}",
    "{\"foodName\":\"Gulab Jamun\",\"visibleCount\":\"COUNT_FROM_IMAGE\"}",
    "{\"foodName\":\"Paratha\"}",
    "{\"foodName\":\"Margherita Pizza\",\"visibleCount\":4,\"perUnitWeight\":\"one slice\"}">>

RECURSIVE JoinWith(_, _)
\* parts.join(sep)
JoinWith(parts, sep) ==
  IF parts = <<>> THEN ""
  ELSE IF Len(parts) = 1 THEN parts[1]
  ELSE parts[1] \o sep \o JoinWith(Tail(parts), sep)

\* the reply the prompt asks for, carrying the given entries
QuantityJson(entries) ==
  "{\"detectedItems\":[" \o JoinWith(entries, ",") \o "],\"confidence\":0.9}"

\* the arrays a reply can carry: up to MaxItems of the entries, in their order
DetectedItemLists ==
  {[i \in 1..Len(l) |-> DetectedItemJson[l[i]]] :
     l \in {m \in UNION {[1..n -> 1..Len(DetectedItemJson)] : n \in 0..MaxItems} :
              \A i \in 1..(Len(m) - 1) : m[i] < m[i + 1]}}

\* text outputs of the vision model
GeminiTexts ==
  {QuantityJson(l) : l \in DetectedItemLists}
  \cup {Fence \o "json\n" \o QuantityJson(l) \o "\n" \o Fence :
          l \in {m \in DetectedItemLists : Len(m) = 1}}
  \cup {"Here is the analysis: " \o QuantityJson(<<"{\"foodName\":\"Plain Naan\",\"visibleCount\":2}">>)
          \o " Let me know if you need more.",
        "Result: " \o QuantityJson(<<"{\"foodName\":\"Sushi\",\"visibleCount\":2.7}">>)
          \o " (counts in {braces} are estimates)",
        "{\"detectedItems\":[{\"foodName\":\"Samosa\",\"visibleCount\":2},",
        "{\"error\":\"no food found\"}",
        "{\"detectedItems\":\"2 pizza\"}",
        "I can see 2 parathas and 1 bonda on the plate.",
        "There are 12 Idli, 25 vada and 0 dosa; also 3roti.",
        "A bowl of noodles with a burger.",
        "Sorry, I cannot identify any food in this image."}

\* outcomes of the vision request of analyzeWithGemini
GeminiResponses ==
  {[kind |-> "error", status |-> s] : s \in {429, 401}}
  \cup {[kind |-> "noText"]}
  \cup {[kind |-> "text", text |-> t] : t \in GeminiTexts}

\* the nutritionData that the replies of the generation model hold
AINutritionData ==
  {[perUnitNutrition |->
      [calories |-> 25040, protein |-> 1234, carbs |-> 3020, fat |-> 870, fiber |-> 310,
       sugar |-> 520, sodium |-> 38000, iron |-> 180, calcium |-> 8500, vitaminC |-> 200],
    standardWeight |-> "125g",
    category |-> "Fast Food",
    healthScore |-> 500,
    ingredients |-> <<"wheat flour", "cheese", "tomato sauce", "vegetables", "oil">>,
    tips |-> "High in sodium and calories - enjoy occasionally"],
   [perUnitNutrition |-> [calories |-> 9960, protein |-> 310]],
   [category |-> "Snack"]}

\* text outputs of the generation model that hold a JSON object: the object
\* the prompt asks for, one with two nutrients only, one without nutrients
NutritionJson ==
  {"{\"perUnitNutrition\":{\"calories\":250.4,\"protein\":12.34,\"carbs\":30.2,\"fat\":8.7,"
     \o "\"fiber\":3.1,\"sugar\":5.2,\"sodium\":380,\"iron\":1.8,\"calcium\":85,\"vitaminC\":2},"
     \o "\"standardWeight\":\"125g\",\"category\":\"Fast Food\",\"healthScore\":5,"
     \o "\"ingredients\":[\"wheat flour\",\"cheese\",\"tomato sauce\",\"vegetables\",\"oil\"],"
     \o "\"tips\":\"High in sodium and calories - enjoy occasionally\"}",
   "Per piece: {\"perUnitNutrition\":{\"calories\":99.6,\"protein\":3.1}}",
   "{\"category\":\"Snack\"}"}

\* text outputs that hold none: no braces at all, and braces around what is
\* not JSON
NutritionNotJson ==
  {"I have no nutrition data for this item.",
   "{perUnitNutrition: {calories: 250}}"}

\* outcomes of the request of generateNutritionFromAI
GenerationResponses ==
  {[kind |-> "error", status |-> s] : s \in {503, 400}}
  \cup {[kind |-> "noText"]}
  \cup {[kind |-> "text", text |-> t] : t \in NutritionJson \cup NutritionNotJson}

\* every key and every display name of the catalog
CatalogNames ==
  {perUnitNutrition[i].key : i \in 1..Len(perUnitNutrition)}
  \cup {perUnitNutrition[i].data.displayName : i \in 1..Len(perUnitNutrition)}

\* labels a classifier can return
Labels ==
  CatalogNames
  \cup {"DAL MAKHANI", "pizza, pizza pie", "Hot Pot", "Food", ""}

\* outcomes of the requests of analyzeWithHuggingFace and analyzeWithGoogleVision:
\* an error, a reply without results, or a top result with or without a score
LabelResponses ==
  {[kind |-> "error", status |-> 503], [kind |-> "empty"]}
  \cup {[kind |-> "label", label |-> l, score |-> 93] : l \in Labels}
  \cup {[kind |-> "label", label |-> l, score |-> 0] : l \in {"Hot Pot", ""}}

UserInputs == {null, Str("2 parathas and dal")}

\* nutriments of products of the product database
Nutriments ==
  { (IF p = 0 THEN <<>> ELSE "proteins_100g" :> p)
    @@ (IF f = 0 THEN <<>> ELSE "fiber_100g" :> f)
    @@ (IF na = 0 THEN <<>> ELSE "sodium_100g" :> na)
    @@ (IF su = 0 THEN <<>> ELSE "sugars_100g" :> su)
    @@ (IF fa = 0 THEN <<>> ELSE ("fat_100g" :> fa) @@ ("energy-kcal_100g" :> 38946))
    : p \in {0, 1690}, f \in {0, 1060}, na \in {0, 50000, 120000},
      su \in {0, 2250}, fa \in {0, 2550} }

Products ==
  {[product_name |-> "Rolled Oats", brands |-> "Acme", labels |-> l,
    ingredients_text |-> " oats , salt,sugar ", nutriments |-> n] :
     l \in {"Vegetarian, Vegan", "Vegan", ""}, n \in Nutriments}
  \cup {<<>>}

\* outcomes of the product lookup of recognizeBarcode
BarcodeResponses ==
  {[kind |-> "fetchFailed"], [kind |-> "notFound"]}
  \cup {[kind |-> "product", product |-> p] : p \in Products}

(***************************************************************************)
(* The service as a state machine: one action per stretch of code between  *)
(* two awaits on the platform or the network.                              *)
(***************************************************************************)
NoFmt == [stage |-> "none"]

Pending == [status |-> "pending"]

Init ==
  /\ pc = "idle"
  /\ apis \in [GEMINI_KEY : BOOLEAN, GOOGLE_VISION_KEY : BOOLEAN]
  /\ request = [op |-> "none"]
  /\ base64Image = ""
  /\ methodIdx = 0
  /\ tried = <<>>
  /\ calls = <<>>
  /\ replies = <<>>
  /\ fmt = NoFmt
  /\ outcome = Pending
  /\ NotificationServiceConstructed

\* a catch that hands the error of the method on to the caller
MethodFailedRethrows ==
  /\ pc' = "done"
  /\ outcome' = [status |-> "rejected", error |-> "provider error"]
  /\ fmt' = NoFmt
  /\ UNCHANGED methodIdx

\* a catch that tries the failed method again
MethodFailedRetries ==
  /\ pc' = "methods"
  /\ fmt' = NoFmt
  /\ UNCHANGED <<methodIdx, outcome>>

\* the catch of the for-of loop of recognizeFood: on to the next method
MethodFailed ==
  /\ pc' = "methods"
  /\ methodIdx' = methodIdx + 1
  /\ fmt' = NoFmt
  /\ UNCHANGED outcome

\* a loop that keeps the result of the method and goes on to the next one
MethodSucceededNoReturn(result, name) ==
  /\ pc' = "methods"
  /\ methodIdx' = methodIdx + 1
  /\ outcome' = [status |-> "resolved",
                 report |-> [usedModel |-> name, imageUri |-> request.imageUri,
                             userInput |-> request.userInput] @@ result]
  /\ fmt' = NoFmt

\* return { ...result, usedModel: name, imageUri, userInput }
MethodSucceeded(result, name) ==
  /\ pc' = "done"
  /\ outcome' = [status |-> "resolved",
                 report |-> [usedModel |-> name, imageUri |-> request.imageUri,
                             userInput |-> request.userInput] @@ result]
  /\ fmt' = NoFmt
  /\ UNCHANGED methodIdx

\* formatQuantityResponse up to its loop (lines 200-205); data.detectedItems
\* must be truthy, and iterable with entries that have a food name
EnterFormat(data, stage, text, onThrow) ==
  IF Has(data, "detectedItems") /\ data.detectedItems.t = "arr"
  THEN /\ fmt' = [stage |-> stage, text |-> text,
                  items |-> data.detectedItems.a,
                  confidence |-> IF Has(data, "confidence") /\ data.confidence.t = "num"
                                 THEN NumberValue(data.confidence.lit) ELSE 90,
                  idx |-> 1, processedItems |-> <<>>]
       /\ pc' = "formatItems"
       /\ UNCHANGED <<methodIdx, outcome>>
  ELSE onThrow

\* processQuantityResponse line 191: extractQuantitiesFromText(text, userInput),
\* whose errors reach recognizeFood
EnterExtract(text) ==
  EnterFormat(extractQuantitiesFromText(text, request.userInput), "extract", text, MethodFailed)

\* an error out of formatQuantityResponse: the catch of line 186 when the call
\* was made from line 185, the caller of analyzeWithGemini otherwise
FormatThrows(stage, text) ==
  IF stage = "json" THEN EnterExtract(text) ELSE MethodFailed

\* processQuantityResponse (lines 178-197)
\* JSON.parse(jsonMatch[0]) of the inner try
ParseMatch(m) == IF m.matched THEN JSONparse(m.str) ELSE JsonFail

\* lines 183-191, parsed being what line 184 gave
FormatParsed(parsed, text) ==
  IF parsed.ok
  THEN EnterFormat(parsed.val.o, "json", text, FormatThrows("json", text))
  ELSE EnterExtract(text)

\* processQuantityResponse (lines 178-197)
processQuantityResponse(text) == FormatParsed(ParseMatch(jsonMatch(text)), text)

\* an entry of detectedItems as an object; what is not an object has no fields
ItemAt(i) == IF fmt.items[i].t = "obj" THEN fmt.items[i].o ELSE <<>>

\* processedItems.push(...) and on to the next entry
PushItem(item, perUnitData, finalPerUnitData) ==
  /\ fmt' = [fmt EXCEPT
               !.processedItems = Append(@, ProcessedItem(item, perUnitData, finalPerUnitData,
                                                          request.userInput)),
               !.idx = @ + 1]
  /\ pc' = "formatItems"
  /\ UNCHANGED <<methodIdx, outcome>>

(***************************************************************************)
(* recognizeFood.                                                          *)
(***************************************************************************)
\* how a request settled: the message of the error of safeFetch (line 26), or
\* the kind of the reply
ReplyOf(response) ==
  IF response.kind = "error" THEN "API error " \o NatToStr(response.status)
  ELSE IF response.kind = "text" THEN response.text
  ELSE response.kind

\* the call, up to the await of FileSystem.readAsStringAsync (lines 54-39)
recognizeFood(imageUri, userInput) ==
  /\ pc = "idle"
  /\ request' = [op |-> "recognizeFood", imageUri |-> imageUri, userInput |-> userInput]
  /\ calls' = Append(calls, "FileSystem.readAsStringAsync")
  /\ pc' = "FileSystem"
  /\ UNCHANGED <<apis, base64Image, methodIdx, tried, replies, fmt, outcome>>
  /\ UNCHANGED notificationVars

\* an imageToBase64 without its second path: the error of the first leaves
\* recognizeFood
FileSystemSettlesNoSecondPath(ok) ==
  /\ pc = "FileSystem"
  /\ IF ok
     THEN /\ base64Image' = "/9j/4AAQ"
          /\ pc' = "methods"
          /\ methodIdx' = 1
          /\ UNCHANGED outcome
     ELSE /\ pc' = "done"
          /\ outcome' = [status |-> "rejected", error |-> "FileSystem error"]
          /\ UNCHANGED <<base64Image, methodIdx>>
  /\ replies' = Append(replies, IF ok THEN "base64" ELSE "throws")
  /\ UNCHANGED <<apis, request, tried, calls, fmt>>
  /\ UNCHANGED notificationVars

\* imageToBase64, first path: the payload, or on to ImageManipulator
FileSystemSettles(ok) ==
  /\ pc = "FileSystem"
  /\ IF ok
     THEN /\ base64Image' = "/9j/4AAQ"
          /\ pc' = "methods"
          /\ methodIdx' = 1
          /\ UNCHANGED calls
     ELSE /\ calls' = Append(calls, "ImageManipulator.manipulateAsync")
          /\ pc' = "ImageManipulator"
          /\ UNCHANGED <<base64Image, methodIdx>>
  /\ replies' = Append(replies, IF ok THEN "base64" ELSE "throws")
  /\ UNCHANGED <<apis, request, tried, fmt, outcome>>
  /\ UNCHANGED notificationVars

\* imageToBase64, second path; its errors leave recognizeFood (line 55 is
\* outside every try)
ImageManipulatorSettles(result) ==
  /\ pc = "ImageManipulator"
  /\ CASE result = "base64" ->
            /\ base64Image' = "/9j/4AAQ"
            /\ pc' = "methods"
            /\ methodIdx' = 1
            /\ UNCHANGED outcome
       [] result = "noBase64" ->
            /\ pc' = "done"
            /\ outcome' = [status |-> "rejected",
                           error |-> "Failed to convert image to Base64"]
            /\ UNCHANGED <<base64Image, methodIdx>>
       [] result = "throws" ->
            /\ pc' = "done"
            /\ outcome' = [status |-> "rejected", error |-> "ImageManipulator error"]
            /\ UNCHANGED <<base64Image, methodIdx>>
  /\ replies' = Append(replies, result)
  /\ UNCHANGED <<apis, request, tried, calls, fmt>>
  /\ UNCHANGED notificationVars

\* first turn of the loop: analyzeWithGemini up to its fetch
TryGemini ==
  /\ pc = "methods" /\ methodIdx = 1
  /\ tried' = Append(tried, "Gemini Vision")
  /\ IF apis.GEMINI_KEY
     THEN /\ calls' = Append(calls, "fetch GEMINI_URL vision")
          /\ pc' = "Gemini"
          /\ UNCHANGED <<methodIdx, fmt, outcome>>
     ELSE /\ MethodFailed
          /\ UNCHANGED calls
  /\ UNCHANGED <<apis, request, base64Image, replies>>
  /\ UNCHANGED notificationVars

\* the vision request settles: analyzeWithGemini lines 164-170 and
\* processQuantityResponse
GeminiSettles ==
  /\ pc = "Gemini"
  /\ \E response \in GeminiResponses :
       /\ replies' = Append(replies, ReplyOf(response))
       /\ IF response.kind = "text"
          THEN processQuantityResponse(response.text)
          ELSE MethodFailed
  /\ UNCHANGED <<apis, request, base64Image, tried, calls>>
  /\ UNCHANGED notificationVars

\* one turn of the loop of formatQuantityResponse, up to the push or up to
\* the fetch of generateNutritionFromAI
FormatNamed(item, perUnitData) ==
  IF "needsAIGeneration" \in DOMAIN perUnitData
  THEN /\ calls' = Append(calls, "fetch GEMINI_URL nutrition")
       /\ pc' = "generateNutritionFromAI"
       /\ UNCHANGED <<methodIdx, fmt, outcome>>
  ELSE /\ PushItem(item, perUnitData, perUnitData)
       /\ UNCHANGED calls

FormatEntry(item) ==
  IF ~HasFoodName(item)
  THEN /\ FormatThrows(fmt.stage, fmt.text)
       /\ UNCHANGED calls
  ELSE FormatNamed(item, getPerUnitNutrition(item.foodName.s))

FormatItem ==
  /\ pc = "formatItems" /\ fmt.idx <= Len(fmt.items)
  /\ FormatEntry(ItemAt(fmt.idx))
  /\ UNCHANGED <<apis, request, base64Image, tried, replies>>
  /\ UNCHANGED notificationVars

\* the generation request settles: the rest of generateNutritionFromAI and
\* lines 224-261 of formatQuantityResponse
\* lines 344-351: the parsed object, or the error that the catch turns into
\* null (ok = FALSE)
NutritionParsed(parsed) ==
  IF parsed.ok THEN [ok |-> TRUE, data |-> AINutritionOf(parsed.val.o)] ELSE [ok |-> FALSE]

\* generateNutritionFromAI from the settling of its request on (lines 328-356):
\* an error of safeFetch, no text and a text without JSON all end in the catch
generateNutritionFromAI(response) ==
  IF response.kind = "text"
  THEN NutritionParsed(ParseMatch(jsonMatch(response.text)))
  ELSE [ok |-> FALSE]

\* lines 224-239: the entry built from the generated data, or from the
\* heuristic when generateNutritionFromAI gave null
\* a loop without the else branch of line 234: after a null there is no entry
\* to read the nutrition of
FinalPerUnitDataNoFallback(item, perUnitData, aiNutrition) ==
  IF aiNutrition.ok
  THEN FromAINutrition(item, perUnitData, aiNutrition.data)
  ELSE <<>>

FinalPerUnitData(item, perUnitData, aiNutrition) ==
  IF aiNutrition.ok
  THEN FromAINutrition(item, perUnitData, aiNutrition.data)
  ELSE generateSmartFallback(item.foodName.s)

\* lines 241-261; multiplyNutrition throws on a nutrition that is undefined
Generated(item, perUnitData, finalPerUnitData) ==
  IF "nutrition" \in DOMAIN finalPerUnitData
  THEN PushItem(item, perUnitData, finalPerUnitData)
  ELSE FormatThrows(fmt.stage, fmt.text)

GenerationEntry(item, perUnitData, response) ==
  Generated(item, perUnitData,
            FinalPerUnitData(item, perUnitData, generateNutritionFromAI(response)))

GenerationSettles ==
  /\ pc = "generateNutritionFromAI"
  /\ \E response \in GenerationResponses :
       /\ replies' = Append(replies, ReplyOf(response))
       /\ GenerationEntry(ItemAt(fmt.idx), getPerUnitNutrition(ItemAt(fmt.idx).foodName.s),
                          response)
  /\ UNCHANGED <<apis, request, base64Image, tried, calls>>
  /\ UNCHANGED notificationVars

\* after the loop: the report, which recognizeFood returns
FormatReturns ==
  /\ pc = "formatItems" /\ fmt.idx > Len(fmt.items)
  /\ MethodSucceeded(QuantityReport(fmt.processedItems, fmt.confidence, request.userInput),
                     "Gemini Vision")
  /\ UNCHANGED <<apis, request, base64Image, tried, calls, replies>>
  /\ UNCHANGED notificationVars

\* second turn of the loop: analyzeWithHuggingFace up to its fetch
TryHuggingFace ==
  /\ pc = "methods" /\ methodIdx = 2
  /\ tried' = Append(tried, "Hugging Face Vision")
  /\ calls' = Append(calls, "fetch HF_URL")
  /\ pc' = "HuggingFace"
  /\ UNCHANGED <<apis, request, base64Image, methodIdx, replies, fmt, outcome>>
  /\ UNCHANGED notificationVars

HuggingFaceSettles ==
  /\ pc = "HuggingFace"
  /\ \E response \in LabelResponses :
       /\ replies' = Append(replies, ReplyOf(response))
       /\ IF response.kind = "label"
          THEN MethodSucceeded(
                 formatSimpleResponse(
                   IF response.label # "" THEN response.label ELSE "Unknown Food",
                   "Hugging Face Vision",
                   IF response.score # 0 THEN response.score ELSE 70),
                 "Hugging Face Vision")
          ELSE MethodFailed
  /\ UNCHANGED <<apis, request, base64Image, tried, calls>>
  /\ UNCHANGED notificationVars

\* third turn of the loop: analyzeWithGoogleVision up to its fetch
TryGoogleVision ==
  /\ pc = "methods" /\ methodIdx = 3
  /\ tried' = Append(tried, "Google Vision")
  /\ IF apis.GOOGLE_VISION_KEY
     THEN /\ calls' = Append(calls, "fetch GOOGLE_VISION_URL")
          /\ pc' = "GoogleVision"
          /\ UNCHANGED <<methodIdx, fmt, outcome>>
     ELSE /\ MethodFailed
          /\ UNCHANGED calls
  /\ UNCHANGED <<apis, request, base64Image, replies>>
  /\ UNCHANGED notificationVars

\* a reply without label annotations still gives a report, for 'Unknown food'
GoogleVisionSettles ==
  /\ pc = "GoogleVision"
  /\ \E response \in LabelResponses :
       /\ replies' = Append(replies, ReplyOf(response))
       /\ IF response.kind = "error"
          THEN MethodFailed
          ELSE MethodSucceeded(
                 formatSimpleResponse(
                   IF response.kind = "label" /\ response.label # "" THEN response.label
                   ELSE "Unknown food",
                   "Google Vision",
                   IF response.kind = "label" /\ response.score # 0 THEN response.score ELSE 70),
                 "Google Vision")
  /\ UNCHANGED <<apis, request, base64Image, tried, calls>>
  /\ UNCHANGED notificationVars

\* an end of the loop that reports the failure of every method
UseFallbackRejects ==
  /\ pc = "methods" /\ methodIdx = 4
  /\ pc' = "done"
  /\ outcome' = [status |-> "rejected", error |-> "All AIs failed"]
  /\ UNCHANGED <<apis, request, base64Image, methodIdx, tried, calls, replies, fmt>>
  /\ UNCHANGED notificationVars

\* after the loop (lines 80-82)
UseFallback ==
  /\ pc = "methods" /\ methodIdx = 4
  /\ pc' = "done"
  /\ outcome' = [status |-> "resolved",
                 report |-> [usedModel |-> "Local Fallback"]
                            @@ getFallbackData(request.imageUri, request.userInput)]
  /\ UNCHANGED <<apis, request, base64Image, methodIdx, tried, calls, replies, fmt>>
  /\ UNCHANGED notificationVars

(***************************************************************************)
(* recognizeBarcode.                                                       *)
(***************************************************************************)
recognizeBarcode(barcode) ==
  /\ pc = "idle"
  /\ request' = [op |-> "recognizeBarcode", barcode |-> barcode]
  /\ calls' = Append(calls, "fetch openfoodfacts")
  /\ pc' = "Barcode"
  /\ UNCHANGED <<apis, base64Image, methodIdx, tried, replies, fmt, outcome>>
  /\ UNCHANGED notificationVars

\* a lookup that reports a missing product with the defaults of every field
BarcodeSettlesWithDefaults ==
  /\ pc = "Barcode"
  /\ pc' = "done"
  /\ \E response \in BarcodeResponses :
       /\ replies' = Append(replies, ReplyOf(response))
       /\ outcome' =
            IF response.kind = "fetchFailed"
            THEN [status |-> "rejected",
                  error |-> "Could not find product information for barcode: "
                            \o request.barcode]
            ELSE [status |-> "resolved",
                  report |-> BarcodeReport(IF response.kind = "product"
                                           THEN response.product ELSE <<>>,
                                           request.barcode)]
  /\ UNCHANGED <<apis, request, base64Image, methodIdx, tried, calls, fmt>>
  /\ UNCHANGED notificationVars

\* the lookup settles: the report, or the one error of the catch (line 1730)
BarcodeSettles ==
  /\ pc = "Barcode"
  /\ pc' = "done"
  /\ \E response \in BarcodeResponses :
       /\ replies' = Append(replies, ReplyOf(response))
       /\ outcome' =
            IF response.kind = "product"
            THEN [status |-> "resolved",
                  report |-> BarcodeReport(response.product, request.barcode)]
            ELSE [status |-> "rejected",
                  error |-> "Could not find product information for barcode: "
                            \o request.barcode]
  /\ UNCHANGED <<apis, request, base64Image, methodIdx, tried, calls, fmt>>
  /\ UNCHANGED notificationVars

(***************************************************************************)
(* The network.                                                            *)
(***************************************************************************)
\* positions at which the call awaits a fetch
AwaitingFetch == {"Gemini", "generateNutritionFromAI", "HuggingFace", "GoogleVision", "Barcode"}

\* the server never answers: the promise of fetch (lines 22 and 1683) stays
\* pending, and nothing in the service settles it in its place
NetworkStalls ==
  /\ pc \in AwaitingFetch
  /\ pc' = "stalled"
  /\ UNCHANGED <<apis, request, base64Image, methodIdx, tried, calls, replies, fmt, outcome>>
  /\ UNCHANGED notificationVars

Next ==
  \/ \E userInput \in UserInputs : recognizeFood("file:///meal.jpg", userInput)
  \/ \E ok \in BOOLEAN : FileSystemSettles(ok)
  \/ \E result \in {"base64", "noBase64", "throws"} : ImageManipulatorSettles(result)
  \/ TryGemini
  \/ GeminiSettles
  \/ FormatItem
  \/ GenerationSettles
  \/ FormatReturns
  \/ TryHuggingFace
  \/ HuggingFaceSettles
  \/ TryGoogleVision
  \/ GoogleVisionSettles
  \/ UseFallback
  \/ \E barcode \in {"8901058000290"} : recognizeBarcode(barcode)
  \/ BarcodeSettles
  \/ NetworkStalls

Spec == Init /\ [][Next]_vars

\* NotificationService alone, the keys of the recognition service set
NotificationInit == Init /\ apis = [GEMINI_KEY |-> TRUE, GOOGLE_VISION_KEY |-> TRUE]

NotificationSpec == NotificationInit /\ [][NotificationNext]_vars

(***************************************************************************)
(* Properties of the recognition service.                                  *)
(***************************************************************************)
\* the providers in the order of the methods array of recognizeFood
ProviderNames == <<"Gemini Vision", "Hugging Face Vision", "Google Vision">>

\* a recognizeFood call is in progress or has settled
FoodCall == request.op = "recognizeFood"

\* the call in progress has resolved with a report
Resolved == pc = "done" /\ outcome.status = "resolved"

\* the name a report says it came from
UsedModel == outcome.report.usedModel

\* the rounding rule of a nutrition field
RoundField(key, x) == IF key \in IntegerFields THEN MathRound(x) ELSE RoundTenth(x)

\* the frame of formatQuantityResponse holds processed items
Formatting == pc \in {"formatItems", "generateNutritionFromAI"}

\* the catalog has no entry for the name
Unmatched(foodName) == FirstCatalogHit(toLowerCase(foodName), 1) = 0

\* C1: after the image has been encoded, when the Gemini, Hugging Face and
\* Google Vision methods have all failed, recognizeFood resolves with the
\* fallback report: method 'Local Fallback', isEstimate true.
C1_FallbackWhenAllFail ==
  (FoodCall /\ methodIdx = 4) =>
    /\ base64Image # ""
    /\ tried = ProviderNames
    /\ \/ pc = "methods" /\ outcome.status = "pending"
       \/ /\ Resolved
          /\ outcome.report = [usedModel |-> "Local Fallback"]
                              @@ getFallbackData(request.imageUri, request.userInput)
          /\ outcome.report.method = "Local Fallback"
          /\ outcome.report.isEstimate = TRUE

\* a call that all three methods failed, resolved with the fallback report
C1_Witness ==
  /\ FoodCall /\ Resolved /\ methodIdx = 4
  /\ tried = ProviderNames
  /\ outcome.report.method = "Local Fallback"
  /\ outcome.report.isEstimate = TRUE

\* C2 as stated: recognizeFood never signals a failure to its caller,
\* whatever the outcome of image encoding, of the provider calls and of the
\* generation sub-calls.
C2_NeverRejects == FoodCall => outcome.status # "rejected"

\* C2, amended: recognizeFood rejects only when image encoding failed on both
\* of its paths, before any provider was tried; once the image is encoded,
\* whatever the outcome of the provider calls and of the generation
\* sub-calls, the call ends resolved with a report.
C2_RejectsOnlyOnEncodingFailure ==
  FoodCall =>
    /\ outcome.status = "rejected" =>
         /\ base64Image = ""
         /\ tried = <<>>
         /\ calls = <<"FileSystem.readAsStringAsync", "ImageManipulator.manipulateAsync">>
    /\ (base64Image # "" /\ pc = "done") => outcome.status = "resolved"

\* a call that resolved although Gemini failed after a generation sub-call
\* and the other two providers failed as well
C2_Witness ==
  /\ FoodCall /\ Resolved
  /\ base64Image # ""
  /\ \E i \in 1..Len(calls) : calls[i] = "fetch GEMINI_URL nutrition"
  /\ tried = ProviderNames
  /\ UsedModel = "Local Fallback"

\* C3: the methods run one after another in the order Gemini, Hugging Face,
\* Google Vision, each at most once and only after every method before it has
\* failed; a report of a provider comes from the last method tried, and the
\* fallback report only after all three have failed.
C3_ProviderOrder ==
  FoodCall =>
    /\ Len(tried) <= Len(ProviderNames)
    /\ tried = SubSeq(ProviderNames, 1, Len(tried))
    /\ Len(tried) > 0 => methodIdx \in {Len(tried), Len(tried) + 1}
    /\ \A i, j \in 1..Len(calls) :
         (calls[i] = calls[j] /\ calls[i] # "fetch GEMINI_URL nutrition") => i = j
    /\ \A i \in 1..Len(calls) :
         /\ calls[i] = "fetch HF_URL" => Len(tried) >= 2
         /\ calls[i] = "fetch GOOGLE_VISION_URL" => Len(tried) = 3
    /\ outcome.status = "resolved" =>
         IF UsedModel = "Local Fallback"
         THEN tried = ProviderNames /\ methodIdx = 4
         ELSE Len(tried) > 0 /\ UsedModel = tried[Len(tried)] /\ methodIdx = Len(tried)

\* a call that Hugging Face answered after Gemini had failed: Google Vision
\* was never called
C3_Witness ==
  /\ FoodCall /\ Resolved
  /\ tried = <<"Gemini Vision", "Hugging Face Vision">>
  /\ UsedModel = "Hugging Face Vision"
  /\ \E i \in 1..Len(calls) : calls[i] = "fetch GEMINI_URL vision"
  /\ \A i \in 1..Len(calls) : calls[i] # "fetch GOOGLE_VISION_URL"

\* C4: every item of the fallback report is a catalog entry, with that
\* entry's numeric per-unit vector and a numeric total vector; none is left
\* with the 'AI_GENERATE' marker.
C4_FallbackItemsFromCatalog ==
  (FoodCall /\ Resolved /\ UsedModel = "Local Fallback") =>
    \A i \in 1..Len(outcome.report.individualItems) :
      LET item == outcome.report.individualItems[i]
      IN /\ \E k \in 1..Len(perUnitNutrition) :
              /\ item.name = perUnitNutrition[k].data.displayName
              /\ item.perUnitNutrition = perUnitNutrition[k].data.nutrition
         /\ item.perUnitNutrition # AI_GENERATE
         /\ DOMAIN item.totalNutrition = NutritionFields

\* C5: in every report of recognizeFood, each field of an item's total is the
\* item's per-unit value times its visible count, rounded by the rule of the
\* field.
C5_ItemTotals ==
  (FoodCall /\ Resolved) =>
    \A i \in 1..Len(outcome.report.individualItems) :
      LET item == outcome.report.individualItems[i]
      IN \A key \in NutritionFields :
           /\ key \in DOMAIN item.perUnitNutrition
           /\ key \in DOMAIN item.totalNutrition
           /\ item.totalNutrition[key]
                = RoundField(key, item.perUnitNutrition[key] * item.visibleCount)

\* C6: in every report of recognizeFood, each field of the grand total is the
\* sum of that field over the totals of the listed items, up to the rounding
\* of the field.
C6_GrandTotal ==
  (FoodCall /\ Resolved) =>
    \A key \in NutritionFields :
      LET items == outcome.report.individualItems
      IN /\ \A i \in 1..Len(items) : key \in DOMAIN items[i].totalNutrition
         /\ outcome.report.nutrition[key]
              = RoundField(key, SumSeq([i \in 1..Len(items) |-> items[i].totalNutrition[key]]))

\* C7: the health score of every report, of recognizeFood and of
\* recognizeBarcode, lies in [1, 10] and is a multiple of 0.5.
C7_HealthScoreRange ==
  Resolved =>
    /\ outcome.report.healthScore >= 100
    /\ outcome.report.healthScore <= 1000
    /\ outcome.report.healthScore % 50 = 0

\* a structured report whose score calculateAccurateHealthScore moved off 6,
\* to a half point
C7_Witness ==
  /\ FoodCall /\ Resolved
  /\ UsedModel = "Gemini Vision"
  /\ outcome.report.healthScore % 100 = 50
  /\ outcome.report.healthScore
       = calculateAccurateHealthScore(outcome.report.nutrition)

\* C8: a name equal, ignoring case, to the key or the display name of a
\* catalog entry resolves to that very entry.
C8_ExactMatchWins ==
  Formatting =>
    \A i \in 1..Len(fmt.processedItems) :
      \A k \in 1..Len(perUnitNutrition) :
        toLowerCase(ItemAt(i).foodName.s) \in {perUnitNutrition[k].key, lowerDisplayName[k]}
          => /\ fmt.processedItems[i].name = perUnitNutrition[k].data.displayName
             /\ fmt.processedItems[i].perUnitNutrition = perUnitNutrition[k].data.nutrition

\* C9: a name the catalog does not match resolves to a stub that needs
\* generation and keeps the name, and the item the report lists for it
\* carries exactly that name, whether the generation gave data or the
\* heuristic stood in.
C9_UnmatchedNameKept ==
  [][(pc = "formatItems" /\ pc' = "done") =>
       /\ outcome'.status = "resolved"
       /\ Len(outcome'.report.individualItems) = Len(fmt.items)
       /\ \A i \in 1..Len(fmt.items) :
            Unmatched(ItemAt(i).foodName.s) =>
              /\ getPerUnitNutrition(ItemAt(i).foodName.s).needsAIGeneration
              /\ getPerUnitNutrition(ItemAt(i).foodName.s).displayName = ItemAt(i).foodName.s
              /\ outcome'.report.individualItems[i].name = ItemAt(i).foodName.s]_vars

\* a report with one unmatched item from the heuristic and one from generated
\* data
C9_Witness ==
  /\ FoodCall /\ Resolved
  /\ UsedModel = "Gemini Vision"
  /\ Len(outcome.report.individualItems) = 2
  /\ outcome.report.individualItems[1].name = "Momos"
  /\ outcome.report.individualItems[1].tips = "Nutrition estimated based on similar foods"
  /\ outcome.report.individualItems[2].name = "Margherita Pizza"
  /\ outcome.report.individualItems[2].category = "Fast Food"

\* C10: whatever visibleCount an entry carries, the count of its item is at
\* least 1, and it is 1 when visibleCount is missing or not a number.
C10_CountAtLeastOne ==
  Formatting =>
    \A i \in 1..Len(fmt.processedItems) :
      /\ fmt.processedItems[i].visibleCount >= 1
      /\ parseIntOf(ItemAt(i), "visibleCount").nan => fmt.processedItems[i].visibleCount = 1

\* the call awaits the settling of a generation request
Generating == pc = "generateNutritionFromAI"

\* the last element of a sequence that has one
Last(s) == s[Len(s)]

\* the request that has just settled ended in an error of safeFetch, brought
\* no text, or brought a text that holds no JSON object
GenerationFailed(reply) ==
  reply \in {"API error 503", "API error 400", "noText"} \cup NutritionNotJson

\* C11: when the text of the provider holds no JSON object with items, no
\* match of a quantity pattern and no food word, extraction ends in an error:
\* formatting never starts on an empty list of extracted items, and no report
\* of the Gemini method has zero items.
C11_NoEmptyReport ==
  FoodCall =>
    /\ (pc = "formatItems" /\ fmt.stage = "extract") => Len(fmt.items) >= 1
    /\ (Resolved /\ UsedModel = "Gemini Vision") => outcome.report.itemCount >= 1

\* C12: a generation sub-call that ends in an HTTP error, in no text or in a
\* text without JSON raises nothing: the loop goes on in the same frame, and
\* the item gets the estimate of its food category under its own name; the
\* report that follows lists every processed item.
C12_GenerationNeverRaises ==
  [][/\ (Generating /\ Len(replies') = Len(replies) + 1 /\ GenerationFailed(Last(replies'))) =>
          /\ pc' = "formatItems"
          /\ outcome' = outcome /\ methodIdx' = methodIdx
          /\ fmt'.stage = fmt.stage /\ fmt'.items = fmt.items
          /\ fmt'.idx = fmt.idx + 1
          /\ Len(fmt'.processedItems) = Len(fmt.processedItems) + 1
          /\ SubSeq(fmt'.processedItems, 1, Len(fmt.processedItems)) = fmt.processedItems
          /\ Last(fmt'.processedItems).name = ItemAt(fmt.idx).foodName.s
          /\ Last(fmt'.processedItems).perUnitNutrition
               = categoryNutrition[categorizeFoodType(ItemAt(fmt.idx).foodName.s)]
          /\ DOMAIN Last(fmt'.processedItems).totalNutrition = NutritionFields
          /\ Last(fmt'.processedItems).tips = "Nutrition estimated based on similar foods"
     /\ (pc = "formatItems" /\ pc' = "done") =>
          /\ outcome'.status = "resolved"
          /\ outcome'.report.individualItems = fmt.processedItems]_vars

\* a report of the Gemini method whose last item got the estimate because the
\* reply of the generation model held no JSON
C12_Witness ==
  /\ FoodCall /\ Resolved
  /\ UsedModel = "Gemini Vision"
  /\ Last(replies) \in NutritionNotJson
  /\ outcome.report.itemCount = 2
  /\ outcome.report.individualItems[2].tips = "Nutrition estimated based on similar foods"
  /\ outcome.report.individualItems[2].perUnitNutrition.calories > 0

\* C13: whatever the generation sub-call of one of several detected items
\* returns, the loop goes on in the same frame over the same detected items,
\* the items processed before stay as they were, and the item of the
\* sub-call is added under its name: the structured result is not abandoned.
C13_FailureDegradesOwnItemOnly ==
  [][(Generating /\ Len(replies') = Len(replies) + 1 /\ Len(fmt.items) >= 2) =>
       /\ pc' = "formatItems"
       /\ fmt'.stage = fmt.stage /\ fmt'.items = fmt.items
       /\ fmt'.idx = fmt.idx + 1
       /\ SubSeq(fmt'.processedItems, 1, Len(fmt.processedItems)) = fmt.processedItems
       /\ Len(fmt'.processedItems) = Len(fmt.processedItems) + 1
       /\ Last(fmt'.processedItems).name = ItemAt(fmt.idx).foodName.s]_vars

\* the item carries the mark of nutrition that the generation model supplied
MarkedAIGenerated(item) == GetOr(item, "generatedByAI", FALSE)

\* C14: the mark of an item tells where its nutrition came from: an item is
\* marked AI-generated exactly when its generation sub-call gave data; an
\* item that got the estimate after a failed sub-call is not, and neither is
\* an item of the catalog, for which no sub-call is made.
C14_SourceTagDistinguishes ==
  [][/\ (Generating /\ Len(replies') = Len(replies) + 1 /\ pc' = "formatItems"
           /\ fmt'.stage = fmt.stage /\ fmt'.idx = fmt.idx + 1) =>
          (MarkedAIGenerated(Last(fmt'.processedItems)) <=> ~GenerationFailed(Last(replies')))
     /\ (pc = "formatItems" /\ pc' = "formatItems" /\ replies' = replies
           /\ fmt'.idx = fmt.idx + 1) =>
          ~MarkedAIGenerated(Last(fmt'.processedItems))]_vars

\* the generation requests issued so far
NutritionFetches == {k \in 1..Len(calls) : calls[k] = "fetch GEMINI_URL nutrition"}

\* the detected items of the frame that need a generation sub-call
NeedGeneration ==
  {i \in 1..Len(fmt.items) : HasFoodName(ItemAt(i)) /\ Unmatched(ItemAt(i).foodName.s)}

\* C15: the generation sub-calls of one request run side by side: while one
\* of them is awaited, the sub-call of every detected item that needs one has
\* been issued; and the report is built only when every call has settled.
C15_SubCallsConcurrent ==
  /\ Generating => Cardinality(NutritionFetches) >= Cardinality(NeedGeneration)
  /\ (FoodCall /\ Resolved) => Len(replies) = Len(calls)

\* the errors of safeFetch that tell of a server rate-limiting or overloaded
RetryableErrors == {"API error 429", "API error 503"}

\* C16: a generation request that was not itself a retry and ends in a
\* retryable error is followed by another request for the same item, before
\* anything is pushed; one that ends in an error that is not retryable is
\* not repeated, and its item gets the estimate.
C16_RetryableRetried ==
  [][/\ (Generating /\ Len(replies') = Len(replies) + 1
           /\ Last(replies) \notin RetryableErrors
           /\ Last(replies') \in RetryableErrors) =>
          /\ pc' = "generateNutritionFromAI"
          /\ calls' = Append(calls, "fetch GEMINI_URL nutrition")
          /\ fmt' = fmt
     /\ (Generating /\ Len(replies') = Len(replies) + 1
           /\ Last(replies') = "API error 400") =>
          /\ calls' = calls
          /\ pc' = "formatItems"
          /\ fmt'.idx = fmt.idx + 1]_vars

C18_NoCallBlocks == pc = "stalled" => ENABLED Next

\* C19: recognizeBarcode makes one lookup; when the product database has no
\* product for the code, the call rejects with the not-found error of the
\* code and carries no report.
C19_NotFoundRejectsOnce ==
  (request.op = "recognizeBarcode" /\ pc = "done") =>
    /\ calls = <<"fetch openfoodfacts">>
    /\ Len(replies) = 1
    /\ replies[1] = "notFound" =>
         /\ outcome.status = "rejected"
         /\ DOMAIN outcome = {"status", "error"}
         /\ outcome.error = "Could not find product information for barcode: "
                            \o request.barcode
    /\ outcome.status = "resolved" => replies[1] = "product"

\* a lookup of a code the product database does not have, rejected
C19_Witness ==
  /\ request.op = "recognizeBarcode" /\ pc = "done"
  /\ replies = <<"notFound">>
  /\ outcome.status = "rejected"

\* the number of calls of the given kind
CallCount(call) == Cardinality({k \in 1..Len(calls) : calls[k] = call})

\* C20: imageToBase64 tries each of its two paths at most once, the second
\* only after the first has failed; it gives the payload as soon as a path
\* has one, and the encoding failure is signalled only when both have failed.
C20_EncodingPaths ==
  (FoodCall /\ Len(replies) >= 1) =>
    /\ CallCount("FileSystem.readAsStringAsync") = 1
    /\ CallCount("ImageManipulator.manipulateAsync") = (IF replies[1] = "throws" THEN 1 ELSE 0)
    /\ replies[1] = "base64" => base64Image # "" /\ outcome.status # "rejected"
    /\ (Len(replies) >= 2 /\ replies[1] = "throws") =>
         IF replies[2] = "base64"
         THEN base64Image # "" /\ outcome.status # "rejected"
         ELSE /\ base64Image = ""
              /\ outcome.status = "rejected"
              /\ pc = "done"
              /\ Len(calls) = 2
    /\ base64Image # "" => \E k \in 1..2 : k <= Len(replies) /\ replies[k] = "base64"

\* a report for an image that only the second path could encode
C20_Witness ==
  /\ FoodCall /\ Resolved
  /\ base64Image # ""
  /\ SubSeq(replies, 1, 2) = <<"throws", "base64">>
  /\ SubSeq(calls, 1, 2) = <<"FileSystem.readAsStringAsync", "ImageManipulator.manipulateAsync">>


\* the provider a vision request goes to
ProviderOfCall ==
  [c \in {"fetch GEMINI_URL vision", "fetch HF_URL", "fetch GOOGLE_VISION_URL"} |->
     CASE c = "fetch GEMINI_URL vision" -> "Gemini Vision"
       [] c = "fetch HF_URL" -> "Hugging Face Vision"
       [] c = "fetch GOOGLE_VISION_URL" -> "Google Vision"]

\* a vision request settled with a non-2xx status or with empty output: no
\* text, no classification results, no label annotations
FailedOrEmpty == {"API error 429", "API error 401", "API error 503", "noText", "empty"}

\* C21: a provider whose response was non-2xx or carried empty output has
\* failed: the report recognizeFood returns is not one of that provider, the
\* cascade having gone on to the next provider or to the local fallback.
C21_EmptyOutputIsFailure ==
  (FoodCall /\ Resolved) =>
    \A k \in 1..Len(replies) :
      (calls[k] \in DOMAIN ProviderOfCall /\ replies[k] \in FailedOrEmpty)
        => UsedModel # ProviderOfCall[calls[k]]

\* the ingredient names one of the terms: one of its words is the term
NamesTerm(ing, terms) ==
  \E w \in 1..Len(split(toLowerCase(ing), " ")) : split(toLowerCase(ing), " ")[w] \in terms

\* some item has an ingredient that names one of the terms
SomeIngredientNames(items, terms) ==
  \E i \in 1..Len(items) :
    \E j \in 1..Len(GetOr(items[i], "ingredients", <<>>)) :
      NamesTerm(items[i].ingredients[j], terms)

\* C22: the dietary flags of a report aggregated from resolved items equal
\* their definitions: vegetarian iff no ingredient names a meat or egg term,
\* vegan iff vegetarian and no ingredient names a dairy term, gluten-free iff
\* no ingredient names wheat, flour or bread ('wheat flour' does), high
\* protein iff the total protein exceeds 20 g, balanced iff at least 2 items.
C22_DietaryFlags ==
  (FoodCall /\ Resolved /\ UsedModel = "Gemini Vision") =>
    /\ outcome.report.dietaryInfo.isVegetarian
         <=> ~SomeIngredientNames(outcome.report.individualItems,
                                  {"chicken", "mutton", "meat", "egg"})
    /\ outcome.report.dietaryInfo.isVegan
         <=> /\ outcome.report.dietaryInfo.isVegetarian
             /\ ~SomeIngredientNames(outcome.report.individualItems,
                                     {"butter", "ghee", "cream", "milk", "cheese"})
    /\ outcome.report.dietaryInfo.isGlutenFree
         <=> ~SomeIngredientNames(outcome.report.individualItems, {"wheat", "flour", "bread"})
    /\ outcome.report.dietaryInfo.isHighProtein
         <=> SumSeq([i \in 1..Len(outcome.report.individualItems) |->
                       GetOr(outcome.report.individualItems[i].totalNutrition, "protein", 0)])
             > 2000
    /\ outcome.report.dietaryInfo.isBalanced <=> Len(outcome.report.individualItems) >= 2

\* the vector has all ten nutrition fields, each a non-negative number
CompleteVector(v) ==
  /\ DOMAIN v = NutritionFields
  /\ \A key \in NutritionFields : v[key] >= 0

\* C23: every nutrition vector of a report recognizeFood returns, the
\* per-unit vector and the total of each item and the grand total, has all
\* ten fields, each a non-negative number.
C23_VectorsComplete ==
  (FoodCall /\ Resolved) =>
    /\ CompleteVector(outcome.report.nutrition)
    /\ \A i \in 1..Len(outcome.report.individualItems) :
         /\ CompleteVector(outcome.report.individualItems[i].perUnitNutrition)
         /\ CompleteVector(outcome.report.individualItems[i].totalNutrition)


\* the text output of the vision model, where the vision request gave one
GeminiText ==
  IF \E k \in 1..Len(replies) : calls[k] = "fetch GEMINI_URL vision"
  THEN replies[CHOOSE k \in 1..Len(replies) : calls[k] = "fetch GEMINI_URL vision"]
  ELSE ""

\* the text holds, from its first "{" to its last "}", a JSON object with an
\* array of detected items
WrapsDetectedItems(text) ==
  /\ ParseMatch(jsonMatch(text)).ok
  /\ ParseMatch(jsonMatch(text)).val.t = "obj"
  /\ Has(ParseMatch(jsonMatch(text)).val.o, "detectedItems")
  /\ ParseMatch(jsonMatch(text)).val.o.detectedItems.t = "arr"

\* the entries of that array
EntriesOf(text) == ParseMatch(jsonMatch(text)).val.o.detectedItems.a

\* the item has the food name of the entry, and its count where the entry
\* carries a number
ItemOfEntry(item, entry) ==
  /\ entry.t = "obj"
  /\ HasFoodName(entry.o)
  /\ item.name = entry.o.foodName.s
  /\ (Has(entry.o, "visibleCount") /\ entry.o.visibleCount.t = "num") =>
       item.visibleCount * 100 = NumberValue(entry.o.visibleCount.lit)

\* C24: when the text of the provider wraps, in a code fence or in prose, a
\* JSON object with a detectedItems array, the report of the provider has
\* exactly one item for each entry of the array, in the order of the
\* entries, with the food name and the count of its entry.
C24_EntriesBecomeItems ==
  (FoodCall /\ Resolved /\ UsedModel = "Gemini Vision" /\ WrapsDetectedItems(GeminiText)) =>
    /\ Len(outcome.report.individualItems) = Len(EntriesOf(GeminiText))
    /\ \A i \in 1..Len(outcome.report.individualItems) :
         ItemOfEntry(outcome.report.individualItems[i], EntriesOf(GeminiText)[i])


\* what is left of the work of a call, most significant first: the turns of
\* the loop of recognizeFood, the step within a turn, the entries of the
\* frame of formatQuantityResponse
Rank ==
  << CASE pc = "idle" -> 12
       [] pc = "FileSystem" -> 11
       [] pc = "ImageManipulator" -> 10
       [] pc = "methods" -> 2 * (5 - methodIdx) + 1
       [] pc \in {"Gemini", "HuggingFace", "GoogleVision"} \cup {"formatItems", "generateNutritionFromAI"}
            -> 2 * (5 - methodIdx)
       [] pc = "Barcode" -> 1
       [] OTHER -> 0,
     CASE pc \in {"Gemini", "HuggingFace", "GoogleVision"} -> 3
       [] Formatting /\ fmt.stage = "json" -> 2
       [] Formatting /\ fmt.stage = "extract" -> 1
       [] OTHER -> 0,
     IF Formatting
     THEN 2 * (Len(fmt.items) + 1 - fmt.idx) + (IF pc = "formatItems" THEN 1 ELSE 0)
     ELSE 0 >>

\* the lexicographic order of triples of naturals, which is well-founded
LexLess(x, y) ==
  \/ x[1] < y[1]
  \/ x[1] = y[1] /\ x[2] < y[2]
  \/ x[1] = y[1] /\ x[2] = y[2] /\ x[3] < y[3]

\* the number of entries of the detectedItems array of a parsed text
EntryCount(parsed) ==
  IF parsed.ok /\ parsed.val.t = "obj" /\ Has(parsed.val.o, "detectedItems")
       /\ parsed.val.o.detectedItems.t = "arr"
  THEN Len(parsed.val.o.detectedItems.a)
  ELSE 0

\* the entries the text gives when read as JSON, and when read by the
\* quantity patterns
EntryBound(text) ==
  EntryCount(ParseMatch(jsonMatch(text)))
  + Len(extractQuantitiesFromText(text, request.userInput).detectedItems.a)

\* the generation requests issued number at most the bound
FetchesWithin(bound) == Cardinality(NutritionFetches) <= bound

\* C25: every step of a call decreases a well-founded rank, so a call whose
\* network calls all settle terminates; each of the three providers is
\* invoked at most once per request, and the generation sub-calls number at
\* most the entries of the provider text read as JSON plus the entries it
\* gives to the quantity patterns (checked whenever one has been issued and
\* is awaited), all other calls at most five.
C25_BoundedCalls ==
  /\ [][/\ Rank'[1] \in Nat /\ Rank'[2] \in Nat /\ Rank'[3] \in Nat
        /\ LexLess(Rank', Rank)]_vars
  /\ [](/\ \A call \in DOMAIN ProviderOfCall : CallCount(call) <= 1
        /\ \A i, j \in 1..Len(tried) : tried[i] = tried[j] => i = j
        /\ Generating => FetchesWithin(EntryBound(GeminiText))
        /\ Len(calls) <= 5 + Cardinality(NutritionFetches))

\* a call that ended after every provider had been invoked, the structured
\* result of the first having been re-read by the quantity patterns, with a
\* generation sub-call in either frame
C25_Witness ==
  /\ FoodCall /\ Resolved
  /\ \A call \in DOMAIN ProviderOfCall : CallCount(call) = 1
  /\ WrapsDetectedItems(GeminiText)
  /\ Cardinality(NutritionFetches) >= 2

\* the portion size that goes with a count
SizeOfCount(count) == IF count > 3 THEN "Large" ELSE IF count > 1 THEN "Medium" ELSE "Small"

\* C26: in every report recognizeFood returns, the portion size of an item
\* is given by its visible count alone: Large above 3, Medium for 2 and 3,
\* Small for 1.
C26_PortionSizeOfCount ==
  (FoodCall /\ Resolved) =>
    \A i \in 1..Len(outcome.report.individualItems) :
      outcome.report.individualItems[i].portion.size
        = SizeOfCount(outcome.report.individualItems[i].visibleCount)

\* the grams an item weighs in all, as its totalWeight states them
GramsOf(item) == IF parseInt(item.totalWeight).nan THEN 0 ELSE parseInt(item.totalWeight).val

\* the serving descriptions that state the pieces and the grams
ServingTexts(pieces, grams) ==
  {IntToStr(pieces) \o " piece" \o plural \o total \o "(" \o IntToStr(grams) \o "g)" :
     plural \in {"", "s"}, total \in {" ", " total "}}

\* C27: in every report recognizeFood returns, itemCount is the number of
\* listed items, totalFoodPieces the sum of their counts, and the serving
\* description states that number of pieces and the sum of the total weights
\* of the items.
C27_SummaryAgrees ==
  (FoodCall /\ Resolved) =>
    /\ outcome.report.itemCount = Len(outcome.report.individualItems)
    /\ outcome.report.totalFoodPieces
         = SumSeq([i \in 1..Len(outcome.report.individualItems) |->
                     outcome.report.individualItems[i].visibleCount])
    /\ outcome.report.servingSize
         \in ServingTexts(outcome.report.totalFoodPieces,
                          SumSeq([i \in 1..Len(outcome.report.individualItems) |->
                                    GramsOf(outcome.report.individualItems[i])]))

\* C30: in every report, of recognizeFood and of recognizeBarcode, the
\* dietary flags are consistent: isVegan only where isVegetarian.
C30_VeganIsVegetarian ==
  Resolved => (outcome.report.dietaryInfo.isVegan => outcome.report.dietaryInfo.isVegetarian)

\* C28: over any sequence and interleaving of sendMealCompletionNotification
\* calls, at most one completion notification is presented per meal type
\* and day.
C28_OneCompletionPerDay == \A k \in MealTypes \X Days : presented[k] <= 1

\* C29: over any sequence and interleaving of initialize calls,
\* scheduleDailyMealReminders runs at most once a day, and a call of
\* initialize made after one that returned true on that day returns true
\* without a run of it.
C29_InitializeOnce ==
  /\ \A d \in Days : reminderRuns[d] <= 1
  /\ \A t \in Tasks :
       (tasks[t].pc = "returned" /\ tasks[t].op = "initialize" /\ tasks[t].afterSuccess) =>
         /\ tasks[t].result = TRUE
         /\ ~tasks[t].ranReminders
====
